---- MODULE Spec2Model ----
(***************************************************************************)
(* A model of mpdred/healthcheck: the probe registries, the concurrent     *)
(* execution engine, the status aggregation and the gauge updates.         *)
(*                                                                         *)
(* The repository holds three generations of the engine, all with the same *)
(* goroutine structure (a WaitGroup, an unbuffered channel, a closer):     *)
(*   "executor"     pkg/healthcheck/executor.go   Execute, Err is an error *)
(*   "executorStr"  pkg/healthcheck/endpoints.go  Execute, Err is a string *)
(*   "service"      pkg/healthcheck/handler.go    service.executeProbes    *)
(* They are modelled by one set of goroutine-level actions; impl says      *)
(* which one is running.                                                   *)
(*                                                                         *)
(* Three specifications:                                                   *)
(*   SpecExecute  one call of Execute / executeProbes on an arbitrary list *)
(*   SpecHandler  the handler of unnamed/part_010 (registry, /live ...)    *)
(*   SpecService  probe store + service + metrics + endpoint functions     *)
(***************************************************************************)
EXTENDS Integers, Sequences, FiniteSets, TLC

\* ---------------------------------------------------------------- bounds
\* Longest probe list handed to Execute in SpecExecute.
MaxProbes == 3

\* Number of execution rounds (requests served) in SpecHandler.
MaxRounds == 2

\* Number of execution rounds (requests served) in SpecService.
MaxServiceRounds == 1

\* Number of registry writes (RegisterProbes, UnregisterProbes, Add, Delete).
MaxWrites == 2

\* Number of goroutines calling the probe store concurrently in SpecStore.
MaxCallers == 2

\* ----------------------------------------------------- program constants
StatusOK == 200

StatusNoContent == 204

StatusServiceUnavailable == 503

\* The answer of http.ServeMux for a path without a handler.
StatusNotFound == 404

\* ------------------------------------------------------------ data model
Range(f) == {f[x] : x \in DOMAIN f}

\* error values: nil, or an error carrying a message (which may be empty)
NilErr == [isNil |-> TRUE, msg |-> ""]

Error(m) == [isNil |-> FALSE, msg |-> m]

\* ProbeKind constants
Health == "health"

Liveness == "liveness"

Readiness == "readiness"

Startup == "startup"

LivenessProbeKind == "liveness"

ReadinessProbeKind == "readiness"

StartupProbeKind == "startup"

CustomProbeKind == "custom"

\* ProbeHealthStatus constants; the zero value of the field is ""
HealthyStatus == "healthy"

UnhealthyStatus == "unhealthy"

\* Check functions are named by what they do when run:
\*   "ok" returns nil, "fail" returns an error, "failEmpty" returns an
\*   error whose message is empty (errors.New("")), "ctx" honours the context
\*   (an error iff it is cancelled), "panic" panics.
CheckFns == {"ok", "fail", "failEmpty", "ctx", "panic", "snitch"}

\* Probe of pkg/healthcheck/probe.go
ProbeV1(name, kind, fn, info) ==
  [Name |-> name, Kind |-> kind, checkFn |-> fn, IsInformationalOnly |-> info]

\* Probe of unnamed/part_008
ProbeV2(name, kind, fn) ==
  [Name |-> name, Kind |-> kind, CheckFn |-> fn, Health |-> ""]

CheckFnOf(p) == IF "checkFn" \in DOMAIN p THEN p.checkFn ELSE p.CheckFn

\* A Probe.Execute that hands the check a context of its own instead of
\* the caller's.
ProbeExecuteBackground(p, ctxCancelled) ==
  CASE CheckFnOf(p) = "ok" -> NilErr
    [] CheckFnOf(p) = "fail" -> Error("boom")
    [] CheckFnOf(p) = "failEmpty" -> Error("")
    [] CheckFnOf(p) = "snitch" -> Error("dead man's snitch")
    [] CheckFnOf(p) = "ctx" -> NilErr

\* p.Execute(ctx) for a check that returns: the error the check returns
ProbeExecute(p, ctxCancelled) ==
  CASE CheckFnOf(p) = "ok" -> NilErr
    [] CheckFnOf(p) = "fail" -> Error("boom")
    [] CheckFnOf(p) = "failEmpty" -> Error("")
    [] CheckFnOf(p) = "snitch" -> Error("dead man's snitch")
    [] CheckFnOf(p) = "ctx" ->
         IF ctxCancelled THEN Error("context canceled") ELSE NilErr

\* ------------------------------------------------------------- variables
VARIABLES
  impl,       \* which engine code runs
  probes,     \* the probe list of the round (the parameter of Execute)
  mainpc,     \* where the calling goroutine is
  launched,   \* number of probe goroutines started by the for loop
  gpc,        \* per probe goroutine: "new", "check", "send", "sent", "done"
  gres,       \* per probe goroutine: the ExecutionResult r it built
  wg,         \* the WaitGroup counter
  closed,     \* the channel c has been closed
  rr,         \* the results collected so far
  ctxDone,    \* the context has been cancelled
  crashed,    \* the process was terminated by an unrecovered panic
  hprobes,    \* handler.probes: the registry of the handler (name -> Probe)
  sprobes,    \* inMemoryProbeStore.probes: the probe store (name -> Probe)
  lastAdd,    \* history: per name, the probe of the latest Add not deleted since,
              \* and whether that Add put it in place of a different probe
  gauge,      \* the status GaugeVec: (kind, probe name) -> 0 or 1
  pending,    \* gauge writes of UpdateGauge goroutines that have not run yet
  req,        \* the request being served: its kind and how it came in
  status,     \* HTTP status of the last response (0: none written)
  results,    \* the result list the last completed round returned
  rounds,     \* number of rounds started
  writes,     \* number of registry writes made
  mu,         \* inMemoryProbeStore.mu: the writer holding it, number of readers
  callers,    \* per concurrent caller of the store: its call and where it is
  ug,         \* the running call of UpdateGauge: its argument, its goroutines,
              \* the number of calls made; history: the gauge when it was called
  body,       \* body of the last response of an endpoint function: the JSON
              \* object written (probe name -> text), <<>> if none was written
  scrape,     \* the last response of /metrics: the gauge values it exposed;
              \* history: the round that had responded when it started
  cmp,        \* the components of the application and the probes built for
              \* them: the readiness map the caller keeps (and may change),
              \* the arguments and the result of BuildForComponents, and the
              \* last run of one of the checks. History: the map at the call
  srv,        \* the http.Server of the handler and the calls of Start and
              \* Stop: Close was called, who holds the listener, serverCtx is
              \* cancelled, where each Start, its goroutine and Stop are
  bld,        \* a probeBuilder: its version, the probe it holds (b.probe) and
              \* its last build call: argument, returned probe, panic message;
              \* held: the probe its first Build or MustBuild returned, as the
              \* caller reads it now; history heldAs: as it was returned
  invoked,    \* history: per probe goroutine, how often it has called the check
  ctxAtCall   \* history: the context was already cancelled when Execute was called

engineVars ==
  <<impl, probes, mainpc, launched, gpc, gres, wg, closed, rr, ctxDone, crashed>>

appVars ==
  <<hprobes, sprobes, lastAdd, gauge, pending, req, status, results, rounds, writes>>

\* State of the concurrent callers of the store and of UpdateGauge, and the
\* response body of the endpoint functions.
extVars == <<mu, callers, ug, body, scrape, bld, cmp, srv, invoked, ctxAtCall>>

\* The history of the running call of Execute.
histVars == <<invoked, ctxAtCall>>

vars == <<engineVars, appVars, extVars>>

\* The RWMutex of a new store: unlocked.
Unlocked == [writer |-> FALSE, readers |-> 0]

\* No probeBuilder has been made.
NoBuilder == [ver |-> "", probe |-> <<>>, op |-> "", arg |-> <<>>, out |-> <<>>,
              panicked |-> "", held |-> <<>>, heldAs |-> <<>>]

\* A handler as NewHandler returns it: the server has not been started,
\* serverCtx is not cancelled, nobody has called Start or Stop.
\* (listening: the caller of Start whose goroutine holds the open listener,
\* 0 if there is none.)
NoServer == [inShutdown |-> FALSE, listening |-> 0, done |-> FALSE,
             start |-> <<>>, lsn |-> <<>>, stop |-> "idle"]

\* BuildForComponents has not been called.
NoComponents == [ver |-> "", ready |-> <<>>, kind |-> "", roles |-> <<>>,
                 called |-> FALSE, probes |-> <<>>, readyAtCall |-> <<>>,
                 last |-> <<>>]

\* /metrics has not been served.
NoScrape == [taken |-> FALSE, round |-> 0, results |-> <<>>, seen |-> <<>>]

\* No call of UpdateGauge has been made.
NoUpdate == [pc |-> "idle", rs |-> <<>>, spawned |-> 0, go |-> <<>>,
             before |-> <<>>, calls |-> 0,
             repeat |-> FALSE]

\* The state of extVars after construction: nothing is going on.
InitExt ==
  /\ mu = Unlocked
  /\ callers = <<>>
  /\ ug = NoUpdate
  /\ body = <<>>
  /\ scrape = NoScrape
  /\ bld = NoBuilder
  /\ srv = NoServer
  /\ cmp = NoComponents
  /\ invoked = <<>>
  /\ ctxAtCall = FALSE

Idx == DOMAIN gpc

\* No request is being served.
NoRequest == [kind |-> "", via |-> ""]

\* ---------------------------------------------------------------- engine
\* The ExecutionResult a probe goroutine builds from the check's error.
ExecutorResult(p, err) == [Probe |-> p, Err |-> err]

ExecutorStrResult(p, err) ==
  [Probe |-> p, Err |-> IF err.isNil THEN "" ELSE err.msg]

\* A result whose probe counts as unhealthy only if the error has a
\* message.
ServiceResultByMessage(p, err) ==
  IF err.msg # ""
    THEN [Probe |-> [p EXCEPT !.Health = UnhealthyStatus], Err |-> err]
    ELSE [Probe |-> [p EXCEPT !.Health = HealthyStatus], Err |-> err]

ServiceResult(p, err) ==
  IF ~err.isNil
    THEN [Probe |-> [p EXCEPT !.Health = UnhealthyStatus], Err |-> err]
    ELSE [Probe |-> [p EXCEPT !.Health = HealthyStatus], Err |-> err]

\* A result that takes an error for present only if its message is not
\* empty.
MakeResultByMessage(p, err) ==
  LET e == IF err.msg = "" THEN NilErr ELSE err
  IN CASE impl = "executor" -> ExecutorResult(p, e)
       [] impl = "executorStr" -> ExecutorStrResult(p, e)
       [] impl = "service" -> ServiceResult(p, e)

MakeResult(p, err) ==
  CASE impl = "executor" -> ExecutorResult(p, err)
    [] impl = "executorStr" -> ExecutorStrResult(p, err)
    [] impl = "service" -> ServiceResult(p, err)

\* Execute entry: wg.Add(len(probes)), the channel, the closer goroutine.
ExecuteStart ==
  /\ ~crashed
  /\ mainpc = "call"
  /\ wg' = Len(probes)
  /\ closed' = FALSE
  /\ rr' = <<>>
  /\ launched' = 0
  /\ gpc' = [i \in 1..Len(probes) |-> "new"]
  /\ gres' = [i \in 1..Len(probes) |-> NilErr]
  /\ mainpc' = IF Len(probes) = 0 THEN "collect" ELSE "launch"
  /\ invoked' = [i \in 1..Len(probes) |-> 0]
  /\ ctxAtCall' = ctxDone
  /\ UNCHANGED <<impl, probes, ctxDone, crashed>>
  /\ UNCHANGED appVars
  /\ UNCHANGED <<mu, callers, ug, body, scrape, bld, cmp, srv>>

\* A loop that starts the next goroutine only when the check of the one
\* before it has come back.
LaunchAfterPrevious ==
  /\ ~crashed
  /\ mainpc = "launch"
  /\ IF launched = 0 THEN TRUE ELSE gpc[launched] # "check"
  /\ launched' = launched + 1
  /\ gpc' = [gpc EXCEPT ![launched + 1] = "check"]
  /\ mainpc' = IF launched + 1 = Len(probes) THEN "collect" ELSE "launch"
  /\ UNCHANGED <<impl, probes, gres, wg, closed, rr, ctxDone, crashed>>
  /\ UNCHANGED appVars
  /\ UNCHANGED extVars

\* One iteration of "for _, p := range probes { go func(p Probe) {...}(p) }".
Launch ==
  /\ ~crashed
  /\ mainpc = "launch"
  /\ launched' = launched + 1
  /\ gpc' = [gpc EXCEPT ![launched + 1] = "check"]
  /\ mainpc' = IF launched + 1 = Len(probes) THEN "collect" ELSE "launch"
  /\ UNCHANGED <<impl, probes, gres, wg, closed, rr, ctxDone, crashed>>
  /\ UNCHANGED appVars
  /\ UNCHANGED extVars

\* A goroutine that reads the loop variable instead of its argument.
GoroutineProbeCaptured(i) == probes[Len(probes)]

\* The probe goroutine i works on: "go func(p Probe) {...}(p)" hands each
\* goroutine its own copy of the loop variable.
GoroutineProbe(i) == probes[i]

\* The check of goroutine i returns; the goroutine builds its result.
CheckReturns(i) ==
  /\ ~crashed
  /\ gpc[i] = "check"
  /\ CheckFnOf(GoroutineProbe(i)) # "panic"
  /\ gres' = [gres EXCEPT
       ![i] = MakeResult(GoroutineProbe(i), ProbeExecute(GoroutineProbe(i), ctxDone))]
  /\ gpc' = [gpc EXCEPT ![i] = "send"]
  /\ invoked' = [invoked EXCEPT ![i] = @ + 1]
  /\ UNCHANGED <<impl, probes, mainpc, launched, wg, closed, rr, ctxDone, crashed>>
  /\ UNCHANGED appVars
  /\ UNCHANGED <<mu, callers, ug, body, scrape, bld, cmp, srv, ctxAtCall>>

\* The check of goroutine i panics. No goroutine of the engine recovers
\* (there is no recover() in the repository): the deferred wg.Done runs and
\* the Go runtime ends the process, and with it every goroutine, the
\* registries and the gauge.
CheckPanics(i) ==
  /\ ~crashed
  /\ gpc[i] = "check"
  /\ CheckFnOf(GoroutineProbe(i)) = "panic"
  /\ crashed' = TRUE
  /\ mainpc' = "exited"
  /\ probes' = <<>>
  /\ launched' = 0
  /\ gpc' = <<>>
  /\ gres' = <<>>
  /\ wg' = 0
  /\ closed' = FALSE
  /\ rr' = <<>>
  /\ ctxDone' = FALSE
  /\ hprobes' = <<>>
  /\ sprobes' = <<>>
  /\ lastAdd' = <<>>
  /\ gauge' = <<>>
  /\ pending' = {}
  /\ req' = NoRequest
  /\ status' = 0
  /\ results' = <<>>
  /\ rounds' = 0
  /\ writes' = 0
  /\ body' = <<>>
  /\ scrape' = NoScrape
  /\ invoked' = <<>>
  /\ ctxAtCall' = FALSE
  /\ UNCHANGED <<impl, mu, callers, ug, bld, cmp, srv>>

\* "c <- r" meets "for r := range c": the channel is unbuffered, so the
\* send and the receive are one step; rr = append(rr, r).
Collect(i) ==
  /\ ~crashed
  /\ gpc[i] = "send"
  /\ mainpc = "collect"
  /\ ~closed
  /\ rr' = Append(rr, gres[i])
  /\ gpc' = [gpc EXCEPT ![i] = "sent"]
  /\ UNCHANGED <<impl, probes, mainpc, launched, gres, wg, closed, ctxDone, crashed>>
  /\ UNCHANGED appVars
  /\ UNCHANGED extVars

\* The deferred wg.Done() of goroutine i.
Done(i) ==
  /\ ~crashed
  /\ gpc[i] = "sent"
  /\ wg' = wg - 1
  /\ gpc' = [gpc EXCEPT ![i] = "done"]
  /\ UNCHANGED <<impl, probes, mainpc, launched, gres, closed, rr, ctxDone, crashed>>
  /\ UNCHANGED appVars
  /\ UNCHANGED extVars

\* A closer goroutine that does not wait for the WaitGroup.
CloseWithoutWait ==
  /\ ~crashed
  /\ mainpc \in {"launch", "collect"}
  /\ ~closed
  /\ closed' = TRUE
  /\ UNCHANGED <<impl, probes, mainpc, launched, gpc, gres, wg, rr, ctxDone, crashed>>
  /\ UNCHANGED appVars
  /\ UNCHANGED extVars

\* The closer goroutine: wg.Wait() returns, close(c).
Close ==
  /\ ~crashed
  /\ mainpc \in {"launch", "collect"}
  /\ wg = 0
  /\ ~closed
  /\ closed' = TRUE
  /\ UNCHANGED <<impl, probes, mainpc, launched, gpc, gres, wg, rr, ctxDone, crashed>>
  /\ UNCHANGED appVars
  /\ UNCHANGED extVars

\* A collecting loop that also gives up when the context is done.
ReturnOnCancel ==
  /\ ~crashed
  /\ mainpc = "collect"
  /\ closed \/ ctxDone
  /\ mainpc' = "returned"
  /\ UNCHANGED <<impl, probes, launched, gpc, gres, wg, closed, rr, ctxDone, crashed>>
  /\ UNCHANGED appVars
  /\ UNCHANGED extVars

\* The range loop ends on the closed channel; Execute returns rr.
Return ==
  /\ ~crashed
  /\ mainpc = "collect"
  /\ closed
  /\ mainpc' = "returned"
  /\ UNCHANGED <<impl, probes, launched, gpc, gres, wg, closed, rr, ctxDone, crashed>>
  /\ UNCHANGED appVars
  /\ UNCHANGED extVars

\* The caller's context is cancelled (or its deadline passes).
Cancel ==
  /\ ~crashed
  /\ ~ctxDone
  /\ mainpc # "returned"
  /\ ctxDone' = TRUE
  /\ UNCHANGED <<impl, probes, mainpc, launched, gpc, gres, wg, closed, rr, crashed>>
  /\ UNCHANGED appVars
  /\ UNCHANGED extVars

Engine ==
  \/ ExecuteStart
  \/ Launch
  \/ \E i \in Idx : CheckReturns(i)
  \/ \E i \in Idx : CheckPanics(i)
  \/ \E i \in Idx : Collect(i)
  \/ \E i \in Idx : Done(i)
  \/ Close
  \/ Return

\* State of the registries, the gauge and the request after construction.
InitApp ==
  /\ hprobes = <<>>
  /\ sprobes = <<>>
  /\ lastAdd = <<>>
  /\ gauge = <<>>
  /\ pending = {}
  /\ req = NoRequest
  /\ status = 0
  /\ results = <<>>
  /\ rounds = 0
  /\ writes = 0

\* ----------------------------------------------------------- SpecExecute
RECURSIVE ListsUpTo(_, _)
ListsUpTo(S, n) ==
  IF n = 0 THEN {<<>>}
  ELSE LET shorter == ListsUpTo(S, n - 1)
       IN shorter \cup {Append(l, x) : l \in {s \in shorter : Len(s) = n - 1}, x \in S}

ExecProbesV1 ==
  {ProbeV1("a", Liveness, "ok", FALSE), ProbeV1("b", Liveness, "fail", FALSE),
   ProbeV1("c", Readiness, "ctx", FALSE), ProbeV1("d", Health, "panic", TRUE),
   ProbeV1("e", Startup, "failEmpty", FALSE)}

ExecProbesV2 ==
  {ProbeV2("a", LivenessProbeKind, "ok"), ProbeV2("b", LivenessProbeKind, "fail"),
   ProbeV2("c", ReadinessProbeKind, "ctx"), ProbeV2("d", CustomProbeKind, "panic"),
   ProbeV2("e", StartupProbeKind, "failEmpty")}

InitExecute ==
  /\ impl \in {"executor", "executorStr", "service"}
  /\ probes \in ListsUpTo(IF impl = "service" THEN ExecProbesV2 ELSE ExecProbesV1, MaxProbes)
  /\ mainpc = "call"
  /\ launched = 0
  /\ gpc = <<>>
  /\ gres = <<>>
  /\ wg = 0
  /\ closed = FALSE
  /\ rr = <<>>
  /\ ctxDone = FALSE
  /\ crashed = FALSE
  /\ InitApp
  /\ InitExt

NextExecute ==
  \/ Engine
  \/ Cancel

SpecExecute == InitExecute /\ [][NextExecute]_vars

\* ---------------------------------------------------------- SpecTerminate
\* One call of executor.Execute or service.executeProbes under a scheduler
\* that keeps running goroutines that can run; the caller may cancel the
\* context at any moment or never.

\* The probes of the call: checks that return, one of them depending on
\* the context, and a check that panics.
TerminateChecks == {"ok", "ctx", "panic"}

InitTerminate ==
  /\ InitExecute
  /\ impl \in {"executor", "service"}
  /\ \A p \in Range(probes) : CheckFnOf(p) \in TerminateChecks

SpecTerminate == InitTerminate /\ [][NextExecute]_vars /\ WF_vars(Engine)

\* ----------------------------------------------------------- SpecHandler
\* The handler of unnamed/part_010 with the Execute of endpoints.go.

\* Every order in which a "for ... range" over a Go map can visit the set S.
RECURSIVE Orderings(_)
Orderings(S) ==
  IF S = {} THEN {<<>>}
  ELSE UNION {{<<x>> \o l : l \in Orderings(S \ {x})} : x \in S}

\* m[k] = v on a Go map
MapSet(m, k, v) == (k :> v) @@ m

\* delete(m, k) on a Go map
MapDelete(m, k) == [n \in DOMAIN m \ {k} |-> m[n]]

\* RegisterProbes: "for _, p := range probes { h.probes[p.Name] = p }"
RECURSIVE RegisterAll(_, _)
RegisterAll(m, pp) ==
  IF pp = <<>> THEN m
  ELSE RegisterAll(MapSet(m, Head(pp).Name, Head(pp)), Tail(pp))

\* UnregisterProbes: "for _, name := range names { delete(h.probes, name) }"
RECURSIVE UnregisterAll(_, _)
UnregisterAll(m, names) ==
  IF names = <<>> THEN m
  ELSE UnregisterAll(MapDelete(m, Head(names)), Tail(names))

\* handler.GetProbesByKind: all probes for Health, else those of the kind.
GetProbesByKind(kind) ==
  {hprobes[n] : n \in {k \in DOMAIN hprobes : kind = Health \/ hprobes[k].Kind = kind}}

\* A gauge that is added to instead of set.
GaugeAdd(g, kind, name, v) ==
  (<<kind, name>> :> (IF <<kind, name>> \in DOMAIN g THEN g[<<kind, name>>] ELSE 0) + v) @@ g

\* WithLabelValues(kind, name).Set(v)
GaugeSet(g, kind, name, v) == (<<kind, name>> :> v) @@ g

\* The result loop of handler.executionResults: the gauge writes and
\* hasAtLeastOneErr after the results rs, from gauge g. A failing probe gets
\* Set(1); unless it is informational-only the loop continues with the next
\* result, otherwise it falls through to the Set(0) below.
RECURSIVE Aggregate(_, _, _)
Aggregate(rs, g, hasAtLeastOneErr) ==
  IF rs = <<>> THEN [gauge |-> g, hasAtLeastOneErr |-> hasAtLeastOneErr]
  ELSE LET r == Head(rs)
           p == r.Probe
           g1 == GaugeSet(g, p.Kind, p.Name, 1)
       IN IF r.Err # ""
            THEN IF ~p.IsInformationalOnly
                   THEN Aggregate(Tail(rs), g1, TRUE)
                   ELSE Aggregate(Tail(rs), GaugeSet(g1, p.Kind, p.Name, 0),
                                  hasAtLeastOneErr)
            ELSE Aggregate(Tail(rs), GaugeSet(g, p.Kind, p.Name, 0), hasAtLeastOneErr)

\* The probes the example programs register with the handler.
HandlerProbes ==
  {ProbeV1("A", Liveness, "ok", FALSE), ProbeV1("B", Liveness, "fail", FALSE),
   ProbeV1("B", Liveness, "fail", TRUE), ProbeV1("C", Startup, "failEmpty", FALSE),
   ProbeV1("A", Readiness, "panic", FALSE)}

HandlerNames == {"A", "B", "C"}

HandlerKinds == {Health, Liveness, Readiness, Startup}

\* The argument lists of a variadic call: one argument, or two different ones.
ArgLists(S) == {<<x>> : x \in S} \cup {q \in S \X S : q[1] # q[2]}

RegisterProbes(pp) ==
  /\ ~crashed
  /\ writes < MaxWrites
  /\ writes' = writes + 1
  /\ hprobes' = RegisterAll(hprobes, pp)
  /\ UNCHANGED <<sprobes, lastAdd, gauge, pending, req, status, results, rounds>>
  /\ UNCHANGED engineVars
  /\ UNCHANGED extVars

UnregisterProbes(names) ==
  /\ ~crashed
  /\ writes < MaxWrites
  /\ writes' = writes + 1
  /\ hprobes' = UnregisterAll(hprobes, names)
  /\ UNCHANGED <<sprobes, lastAdd, gauge, pending, req, status, results, rounds>>
  /\ UNCHANGED engineVars
  /\ UNCHANGED extVars

\* handleHealth, handleLiveness, handleReadiness, handleStartup up to the
\* call of the executor: handler.Execute reads the probes of the kind.
HandleRequest(kind) ==
  /\ ~crashed
  /\ mainpc = "idle"
  /\ rounds < MaxRounds
  /\ rounds' = rounds + 1
  /\ req' = [kind |-> kind, via |-> "endpoint"]
  /\ probes' \in Orderings(GetProbesByKind(kind))
  /\ mainpc' = "call"
  /\ status' = 0
  /\ results' = <<>>
  /\ UNCHANGED <<impl, launched, gpc, gres, wg, closed, rr, ctxDone, crashed>>
  /\ UNCHANGED <<hprobes, sprobes, lastAdd, gauge, pending, writes>>
  /\ UNCHANGED extVars

\* The rest of handler.executionResults once Execute has returned: the
\* gauge writes, then 503, or (Health) the result list as JSON with the
\* implicit 200, or 200 "OK".
HandlerRespond ==
  /\ ~crashed
  /\ mainpc = "returned"
  /\ LET a == Aggregate(rr, gauge, FALSE)
     IN /\ gauge' = a.gauge
        /\ status' = IF a.hasAtLeastOneErr THEN StatusServiceUnavailable ELSE StatusOK
        /\ results' = IF a.hasAtLeastOneErr THEN <<>> ELSE rr
  /\ mainpc' = "idle"
  /\ UNCHANGED <<impl, probes, launched, gpc, gres, wg, closed, rr, ctxDone, crashed>>
  /\ UNCHANGED <<hprobes, sprobes, lastAdd, pending, req, rounds, writes>>
  /\ UNCHANGED extVars

InitHandler ==
  /\ impl = "executorStr"
  /\ probes = <<>>
  /\ mainpc = "idle"
  /\ launched = 0
  /\ gpc = <<>>
  /\ gres = <<>>
  /\ wg = 0
  /\ closed = FALSE
  /\ rr = <<>>
  /\ ctxDone = FALSE
  /\ crashed = FALSE
  /\ InitApp
  /\ InitExt

NextHandler ==
  \/ \E pp \in ArgLists(HandlerProbes) : RegisterProbes(pp)
  \/ \E names \in ArgLists(HandlerNames) : UnregisterProbes(names)
  \/ \E kind \in HandlerKinds : HandleRequest(kind)
  \/ Engine
  \/ HandlerRespond

SpecHandler == InitHandler /\ [][NextHandler]_vars

\* ------------------------------------------------------------ SpecHandle
\* The handler of pkg/healthcheck/handler.go, whose probes have GetName and
\* GetKind and whose executor returns results with an error value.

\* The result loop of handler.handle: the gauge after the results rs of a
\* request to the endpoint of kind, from gauge g. Each result sets the
\* series WithLabelValues(string(kind), r.Probe.GetName()): 1 with an
\* error, else 0.
RECURSIVE HandleGauge(_, _, _)
HandleGauge(rs, g, kind) ==
  IF rs = <<>> THEN g
  ELSE HandleGauge(Tail(rs),
                   GaugeSet(g, kind, Head(rs).Probe.Name,
                            IF Head(rs).Err.isNil THEN 0 ELSE 1),
                   kind)

\* The rest of handler.handle once Execute has returned: the gauge writes,
\* then 503 if a result has an error, else 200 "OK".
Handle ==
  /\ ~crashed
  /\ mainpc = "returned"
  /\ gauge' = HandleGauge(rr, gauge, req.kind)
  /\ status' = IF \E j \in DOMAIN rr : ~rr[j].Err.isNil
                 THEN StatusServiceUnavailable
                 ELSE StatusOK
  /\ results' = rr
  /\ mainpc' = "idle"
  /\ UNCHANGED <<impl, probes, launched, gpc, gres, wg, closed, rr, ctxDone, crashed>>
  /\ UNCHANGED <<hprobes, sprobes, lastAdd, pending, req, rounds, writes>>
  /\ UNCHANGED extVars

InitHandle ==
  /\ impl = "executor"
  /\ probes = <<>>
  /\ mainpc = "idle"
  /\ launched = 0
  /\ gpc = <<>>
  /\ gres = <<>>
  /\ wg = 0
  /\ closed = FALSE
  /\ rr = <<>>
  /\ ctxDone = FALSE
  /\ crashed = FALSE
  /\ InitApp
  /\ InitExt

NextHandle ==
  \/ \E pp \in ArgLists(HandlerProbes) : RegisterProbes(pp)
  \/ \E names \in ArgLists(HandlerNames) : UnregisterProbes(names)
  \/ \E kind \in HandlerKinds : HandleRequest(kind)
  \/ Engine
  \/ Handle

SpecHandle == InitHandle /\ [][NextHandle]_vars

\* ----------------------------------------------------------- SpecService
\* The probe store, the service, the metrics service and the endpoint
\* functions of pkg/factories.

\* A store that keeps the entry it already has for a name.
RECURSIVE AddKeepFirst(_, _)
AddKeepFirst(m, pp) ==
  IF pp = <<>> THEN m
  ELSE AddKeepFirst(IF Head(pp).Name \in DOMAIN m THEN m
                    ELSE MapSet(m, Head(pp).Name, Head(pp)), Tail(pp))

\* inMemoryProbeStore.Add: "for _, p := range probes { s.probes[p.Name] = p }"
RECURSIVE Add(_, _)
Add(m, pp) ==
  IF pp = <<>> THEN m
  ELSE Add(MapSet(m, Head(pp).Name, Head(pp)), Tail(pp))

\* A Delete that stops after the first name.
DeleteFirstOnly(m, names) ==
  IF names = <<>> THEN m ELSE MapDelete(m, Head(names))

\* inMemoryProbeStore.Delete: "for _, name := range names { delete(...) }"
RECURSIVE Delete(_, _)
Delete(m, names) ==
  IF names = <<>> THEN m
  ELSE Delete(MapDelete(m, Head(names)), Tail(names))

\* The zero value of Probe, which a lookup of a missing key yields.
ZeroProbe == [Name |-> "", Kind |-> "", CheckFn |-> "", Health |-> ""]

\* inMemoryProbeStore.Get
Get(name) == IF name \in DOMAIN sprobes THEN sprobes[name] ELSE ZeroProbe

\* inMemoryProbeStore.GetAll: the probes of the map (in map order)
GetAll == {sprobes[n] : n \in DOMAIN sprobes}

\* A lookup by kind that lets on-demand probes into every category.
GetByKindWithCustom(kind) ==
  {sprobes[n] : n \in {k \in DOMAIN sprobes :
                        sprobes[k].Kind = kind \/ sprobes[k].Kind = CustomProbeKind}}

\* inMemoryProbeStore.GetByKind: the probes with p.Kind = kind
GetByKind(kind) ==
  {sprobes[n] : n \in {k \in DOMAIN sprobes : sprobes[k].Kind = kind}}

\* A snapshot that shares its elements with the map: a later write shows.
SnapshotAliased(list, store) ==
  [i \in DOMAIN list |->
     IF list[i].Name \in DOMAIN store THEN store[list[i].Name] ELSE ZeroProbe]

\* What a list returned earlier by GetAll or GetByKind holds once the map
\* has become store: the list was built by append(probeList, p), which
\* copies the Probe values, so it holds what it held.
SnapshotAfterWrite(list, store) == list

\* The probes a service.ExecuteProbesByKind(kind) round runs.
ExecuteProbesByKindProbes(kind) ==
  IF kind = CustomProbeKind THEN GetAll ELSE GetByKind(kind)

\* An endpoint function without the special case for the on-demand kind.
EndpointProbesByKindOnly(k) == GetByKind(k)

\* The probes the endpoint function of kind k runs (getProbeExecutionFns):
\* ExecuteAllProbes for the on-demand kind, else ExecuteProbesByKind(k).
EndpointProbes(k) ==
  IF k = CustomProbeKind THEN GetAll ELSE ExecuteProbesByKindProbes(k)

\* The gauge writes of prometheusMetricsService.UpdateGauge(rs...), one
\* goroutine per result: Set(0) for healthy, Set(1) for unhealthy, nothing
\* for any other Health.
UpdateGauge(rs, round) ==
  {[round |-> round, idx |-> j, kind |-> rs[j].Probe.Kind, name |-> rs[j].Probe.Name,
    val |-> IF rs[j].Probe.Health = HealthyStatus THEN 0 ELSE 1] :
     j \in {i \in DOMAIN rs : rs[i].Probe.Health \in {HealthyStatus, UnhealthyStatus}}}

\* An endpoint function that takes "no result" for a failure.
EndpointStatusEmptyFails(rs) ==
  IF rs = <<>> \/ \E j \in DOMAIN rs : rs[j].Probe.Health = UnhealthyStatus
    THEN StatusServiceUnavailable
    ELSE StatusNoContent

\* An endpoint function that answers 200 for a healthy round, as the
\* handler of the older generation does.
EndpointStatusOK(rs) ==
  IF \E j \in DOMAIN rs : rs[j].Probe.Health = UnhealthyStatus
    THEN StatusServiceUnavailable
    ELSE StatusOK

\* The status the endpoint function writes for the results rs: 503 at the
\* first result whose probe is unhealthy, else 204.
EndpointStatus(rs) ==
  IF \E j \in DOMAIN rs : rs[j].Probe.Health = UnhealthyStatus
    THEN StatusServiceUnavailable
    ELSE StatusNoContent

\* The body the endpoint function writes for the results rs (the later of
\* the two versions of getProbeExecutionFns; the earlier one writes none):
\* nothing with a 204, and with a 503 the JSON of errMessages, which maps
\* the name of every unhealthy probe to the message of its error.
EndpointBody(rs) ==
  LET failed == {j \in DOMAIN rs : rs[j].Probe.Health = UnhealthyStatus}
  IN [n \in {rs[j].Probe.Name : j \in failed} |->
        rs[CHOOSE j \in failed :
             rs[j].Probe.Name = n /\ \A k \in failed : rs[k].Probe.Name = n => k <= j].Err.msg]

\* The probes the example programs add to the store.
ServiceProbes ==
  {ProbeV2("a", LivenessProbeKind, "ok"), ProbeV2("a", CustomProbeKind, "failEmpty"),
   ProbeV2("b", LivenessProbeKind, "fail"), ProbeV2("c", StartupProbeKind, "ok"),
   ProbeV2("b", ReadinessProbeKind, "panic")}

ServiceNames == {"a", "b", "c"}

\* The argument lists of a variadic Add: one probe, two probes of one name in
\* either order, or two probes of different names.
AddArgLists ==
  {<<p>> : p \in ServiceProbes}
    \cup {q \in ServiceProbes \X ServiceProbes : q[1] # q[2] /\ q[1].Name = q[2].Name}
    \cup {<<ProbeV2("b", LivenessProbeKind, "fail"), ProbeV2("c", StartupProbeKind, "ok")>>}

\* The argument lists of a variadic Delete: one name, or two names.
DeleteArgLists == {<<n>> : n \in ServiceNames} \cup {<<"a", "b">>}

ServiceKinds == {StartupProbeKind, LivenessProbeKind, ReadinessProbeKind, CustomProbeKind}

\* history: the last argument of pp named n
LastNamed(pp, n) ==
  pp[CHOOSE i \in DOMAIN pp :
       pp[i].Name = n /\ \A j \in DOMAIN pp : j > i => pp[j].Name # n]

\* history: the probes named n that Add(pp) puts LastNamed(pp, n) in place
\* of: the one held before, and earlier arguments of the same call
Displaced(pp, n) ==
  ((IF n \in DOMAIN lastAdd THEN {lastAdd[n].probe} ELSE {})
     \cup {pp[i] : i \in {j \in DOMAIN pp : pp[j].Name = n}}) \ {LastNamed(pp, n)}

StoreAdd(pp) ==
  /\ ~crashed
  /\ writes < MaxWrites
  /\ writes' = writes + 1
  /\ sprobes' = Add(sprobes, pp)
  /\ lastAdd' = [n \in DOMAIN lastAdd \cup {pp[i].Name : i \in DOMAIN pp} |->
                   IF \E i \in DOMAIN pp : pp[i].Name = n
                     THEN [probe |-> LastNamed(pp, n), replaced |-> Displaced(pp, n) # {}]
                     ELSE lastAdd[n]]
  /\ probes' = SnapshotAfterWrite(probes, sprobes')
  /\ results' = [j \in DOMAIN results |->
                  [results[j] EXCEPT !.Probe =
                     SnapshotAfterWrite(<<results[j].Probe>>, sprobes')[1]]]
  /\ UNCHANGED <<impl, mainpc, launched, gpc, gres, wg, closed, rr, ctxDone, crashed>>
  /\ UNCHANGED <<hprobes, gauge, pending, req, status, rounds>>
  /\ UNCHANGED extVars

StoreDelete(names) ==
  /\ ~crashed
  /\ writes < MaxWrites
  /\ writes' = writes + 1
  /\ sprobes' = Delete(sprobes, names)
  /\ lastAdd' = [n \in DOMAIN lastAdd \ Range(names) |-> lastAdd[n]]
  /\ probes' = SnapshotAfterWrite(probes, sprobes')
  /\ results' = [j \in DOMAIN results |->
                  [results[j] EXCEPT !.Probe =
                     SnapshotAfterWrite(<<results[j].Probe>>, sprobes')[1]]]
  /\ UNCHANGED <<impl, mainpc, launched, gpc, gres, wg, closed, rr, ctxDone, crashed>>
  /\ UNCHANGED <<hprobes, gauge, pending, req, status, rounds>>
  /\ UNCHANGED extVars

\* healthcheck.EndpointDefinitions: the endpoints by name.
EndpointDefinitions ==
  [k \in {"startup", "liveness", "readiness", "health"} |->
     [Name |-> k,
      Endpoint |-> CASE k = "startup" -> "/startup"
                     [] k = "liveness" -> "/live"
                     [] k = "readiness" -> "/ready"
                     [] k = "health" -> "/health"]]

\* factories.GetEndpointDefinitions: the endpoint definitions whose key is
\* also a key of the map of probe execution functions (ServiceKinds), each
\* with that function as its HandleFunc.
GetEndpointDefinitions ==
  {[Name |-> EndpointDefinitions[k].Name, Endpoint |-> EndpointDefinitions[k].Endpoint,
    HandleFunc |-> k] : k \in DOMAIN EndpointDefinitions \cap ServiceKinds}

\* The paths the mux of NewMuxHandler has a handler for.
MuxPaths == {e.Endpoint : e \in GetEndpointDefinitions} \cup {"/metrics"}

\* A GET for the path of an endpoint definition that the mux has no
\* handler for: http.ServeMux answers 404.
ServeUnrouted(k) ==
  /\ ~crashed
  /\ mainpc = "idle"
  /\ rounds < MaxServiceRounds
  /\ EndpointDefinitions[k].Endpoint \notin MuxPaths
  /\ rounds' = rounds + 1
  /\ req' = [kind |-> k, via |-> "notfound"]
  /\ probes' = <<>>
  /\ status' = StatusNotFound
  /\ results' = <<>>
  /\ body' = <<>>
  /\ UNCHANGED <<impl, mainpc, launched, gpc, gres, wg, closed, rr, ctxDone, crashed>>
  /\ UNCHANGED <<hprobes, sprobes, lastAdd, gauge, pending, writes>>
  /\ UNCHANGED <<mu, callers, ug, scrape, bld, cmp, srv, histVars>>

\* The endpoint function of kind k is called (a request comes in, with a
\* context of its own, r.Context()): the round reads its probe list from
\* the store. At most limit rounds are started.
ServeRound(k, limit) ==
  /\ ~crashed
  /\ mainpc = "idle"
  /\ rounds < limit
  /\ rounds' = rounds + 1
  /\ req' = [kind |-> k, via |-> "endpoint"]
  /\ probes' \in Orderings(EndpointProbes(k))
  /\ mainpc' = "call"
  /\ status' = 0
  /\ results' = <<>>
  /\ ctxDone' = FALSE
  /\ UNCHANGED <<impl, launched, gpc, gres, wg, closed, rr, crashed>>
  /\ UNCHANGED <<hprobes, sprobes, lastAdd, gauge, pending, writes>>
  /\ body' = <<>>
  /\ UNCHANGED <<mu, callers, ug, scrape, bld, cmp, srv, histVars>>

ServeEndpoint(k) == ServeRound(k, MaxServiceRounds)

\* A service that stores the classified probe of each result back into
\* the store.
ExecuteProbesReturnWritingBack ==
  /\ ~crashed
  /\ mainpc = "returned"
  /\ results' = rr
  /\ pending' = pending \cup UpdateGauge(rr, rounds)
  /\ status' = EndpointStatus(rr)
  /\ body' = EndpointBody(rr)
  /\ mainpc' = "idle"
  /\ sprobes' = [n \in DOMAIN sprobes |->
                   IF \E j \in DOMAIN rr : rr[j].Probe.Name = n
                     THEN rr[CHOOSE j \in DOMAIN rr : rr[j].Probe.Name = n].Probe
                     ELSE sprobes[n]]
  /\ UNCHANGED <<impl, probes, launched, gpc, gres, wg, closed, rr, ctxDone, crashed>>
  /\ UNCHANGED <<hprobes, lastAdd, gauge, req, rounds, writes>>
  /\ UNCHANGED <<mu, callers, ug, scrape, bld, cmp, srv, histVars>>

\* executeProbes has returned: service.ExecuteProbes starts
\* "go s.metricsService.UpdateGauge(executionResults...)" and returns the
\* results; the endpoint function then writes the status and the body.
ExecuteProbesReturn ==
  /\ ~crashed
  /\ mainpc = "returned"
  /\ results' = rr
  /\ pending' = pending \cup UpdateGauge(rr, rounds)
  /\ status' = EndpointStatus(rr)
  /\ body' = EndpointBody(rr)
  /\ mainpc' = "idle"
  /\ UNCHANGED <<impl, probes, launched, gpc, gres, wg, closed, rr, ctxDone, crashed>>
  /\ UNCHANGED <<hprobes, sprobes, lastAdd, gauge, req, rounds, writes>>
  /\ UNCHANGED <<mu, callers, ug, scrape, bld, cmp, srv, histVars>>

\* One goroutine of UpdateGauge sets its series.
GaugeWrite(w) ==
  /\ ~crashed
  /\ w \in pending
  /\ gauge' = GaugeSet(gauge, w.kind, w.name, w.val)
  /\ pending' = pending \ {w}
  /\ UNCHANGED engineVars
  /\ UNCHANGED <<hprobes, sprobes, lastAdd, req, status, results, rounds, writes>>
  /\ UNCHANGED extVars

InitService ==
  /\ impl = "service"
  /\ probes = <<>>
  /\ mainpc = "idle"
  /\ launched = 0
  /\ gpc = <<>>
  /\ gres = <<>>
  /\ wg = 0
  /\ closed = FALSE
  /\ rr = <<>>
  /\ ctxDone = FALSE
  /\ crashed = FALSE
  /\ InitApp
  /\ InitExt

NextService ==
  \/ \E pp \in AddArgLists : StoreAdd(pp)
  \/ \E names \in DeleteArgLists : StoreDelete(names)
  \/ \E k \in ServiceKinds : ServeEndpoint(k)
  \/ \E k \in DOMAIN EndpointDefinitions : ServeUnrouted(k)
  \/ Engine
  \/ ExecuteProbesReturn
  \/ \E w \in pending : GaugeWrite(w)

SpecService == InitService /\ [][NextService]_vars

\* ----------------------------------------------------------- SpecBuilder
\* The probe builders: healthcheck.probeBuilder of pkg/healthcheck ("v1",
\* default kind Health) and factories.probeBuilder of unnamed/part_006
\* ("v2", default kind CustomProbeKind). A nil check function is "".

\* strings.TrimSpace on the strings used here.
TrimSpace(s) ==
  CASE s = " " -> ""
    [] s = " db " -> "db"
    [] OTHER -> s

\* &Probe{} of the version.
NewProbe(ver) == IF ver = "v1" THEN ProbeV1("", "", "", FALSE) ELSE ZeroProbe

\* b.probe.checkFn = fn / b.probe.CheckFn = fn
SetCheckFn(p, fn) ==
  IF "checkFn" \in DOMAIN p THEN [p EXCEPT !.checkFn = fn] ELSE [p EXCEPT !.CheckFn = fn]

\* A Build that leaves an empty kind empty.
BuildWithoutDefault(p, ver) == [p EXCEPT !.Name = TrimSpace(p.Name)]

\* probeBuilder.Build: the name is trimmed, an empty kind gets the default.
Build(p, ver) ==
  [p EXCEPT !.Name = TrimSpace(p.Name),
            !.Kind = IF p.Kind = ""
                       THEN (IF ver = "v1" THEN Health ELSE CustomProbeKind)
                       ELSE p.Kind]

\* The checks MustBuild makes on the probe Build returned: the message it
\* panics with, "" if it returns.
MustBuildPanic(p) ==
  CASE TrimSpace(p.Kind) = "" -> "no probe kind"
    [] TrimSpace(p.Name) = "" -> "no probe name"
    [] CheckFnOf(p) = "" -> "no probe check function"
    [] OTHER -> ""

\* The probe BuildDeadmansSnitch leaves in the builder. v1 sets the fields
\* (check: return nil); v2 sets them through WithName, WithCustomCheck
\* (check: return errors.New(defaultName)), WithKind and MustBuild.
BuildDeadmansSnitch(p, ver) ==
  IF ver = "v1"
    THEN [SetCheckFn(p, "ok") EXCEPT !.Name = "dead man's snitch", !.Kind = Liveness]
    ELSE Build([SetCheckFn(p, "snitch") EXCEPT !.Name = "dead man's snitch",
                                              !.Kind = LivenessProbeKind], ver)

BuilderNames == {"", " ", "db", " db "}

BuilderKinds == {"", " ", LivenessProbeKind}

BuilderCheckFns == {"", "ok", "fail"}

\* What the caller reads in the probe the first Build or MustBuild
\* returned, once b.probe has become p: pkg/healthcheck returns the pointer
\* b.probe itself ("return b.probe"), so the caller reads p; pkg/factories
\* returns a copy ("return *b.probe"), which stays as it was.
HeldAfter(p) == IF bld.held # <<>> /\ bld.ver = "v1" THEN p ELSE bld.held

\* The record of a builder whose last call was no build call.
Configured(p) ==
  [bld EXCEPT !.probe = p, !.op = "", !.arg = <<>>, !.out = <<>>, !.held = HeldAfter(p)]

WithName(n) ==
  /\ bld.panicked = ""
  /\ bld' = Configured([bld.probe EXCEPT !.Name = n])
  /\ UNCHANGED <<engineVars, appVars, mu, callers, ug, body, scrape, srv, cmp, histVars>>

WithKind(k) ==
  /\ bld.panicked = ""
  /\ bld' = Configured([bld.probe EXCEPT !.Kind = k])
  /\ UNCHANGED <<engineVars, appVars, mu, callers, ug, body, scrape, srv, cmp, histVars>>

WithCustomCheck(fn) ==
  /\ bld.panicked = ""
  /\ bld' = Configured(SetCheckFn(bld.probe, fn))
  /\ UNCHANGED <<engineVars, appVars, mu, callers, ug, body, scrape, srv, cmp, histVars>>

\* b.Build() is called and returns the probe.
CallBuild ==
  /\ bld.panicked = ""
  /\ LET p == Build(bld.probe, bld.ver)
     IN bld' = [bld EXCEPT !.probe = p, !.op = "Build", !.arg = bld.probe, !.out = p,
                           !.held = IF @ = <<>> THEN p ELSE HeldAfter(p),
                           !.heldAs = IF bld.held = <<>> THEN p ELSE @]
  /\ UNCHANGED <<engineVars, appVars, mu, callers, ug, body, scrape, srv, cmp, histVars>>

\* b.MustBuild() is called: it returns the probe or panics.
CallMustBuild ==
  /\ bld.panicked = ""
  /\ LET p == Build(bld.probe, bld.ver)
     IN bld' = [bld EXCEPT !.probe = p, !.op = "MustBuild", !.arg = bld.probe,
                           !.out = IF MustBuildPanic(p) = "" THEN p ELSE <<>>,
                           !.panicked = MustBuildPanic(p),
                           !.held = IF @ = <<>> /\ MustBuildPanic(p) = ""
                                      THEN p ELSE HeldAfter(p),
                           !.heldAs = IF bld.held = <<>> /\ MustBuildPanic(p) = ""
                                        THEN p ELSE @]
  /\ UNCHANGED <<engineVars, appVars, mu, callers, ug, body, scrape, srv, cmp, histVars>>

\* b.BuildDeadmansSnitch() is called.
CallBuildDeadmansSnitch ==
  /\ bld.panicked = ""
  /\ LET p == BuildDeadmansSnitch(bld.probe, bld.ver)
     IN bld' = [bld EXCEPT !.probe = p, !.op = "BuildDeadmansSnitch", !.arg = bld.probe,
                           !.out = IF bld.ver = "v1" \/ MustBuildPanic(p) = "" THEN p ELSE <<>>,
                           !.panicked = IF bld.ver = "v1" THEN "" ELSE MustBuildPanic(p),
                           !.held = HeldAfter(p)]
  /\ UNCHANGED <<engineVars, appVars, mu, callers, ug, body, scrape, srv, cmp, histVars>>

\* NewProbeBuilder() of either version.
InitBuilder ==
  /\ impl = "service"
  /\ probes = <<>>
  /\ mainpc = "idle"
  /\ launched = 0
  /\ gpc = <<>>
  /\ gres = <<>>
  /\ wg = 0
  /\ closed = FALSE
  /\ rr = <<>>
  /\ ctxDone = FALSE
  /\ crashed = FALSE
  /\ InitApp
  /\ mu = Unlocked
  /\ callers = <<>>
  /\ ug = NoUpdate
  /\ body = <<>>
  /\ scrape = NoScrape
  /\ srv = NoServer
  /\ cmp = NoComponents
  /\ invoked = <<>>
  /\ ctxAtCall = FALSE
  /\ \E ver \in {"v1", "v2"} :
       bld = [NoBuilder EXCEPT !.ver = ver, !.probe = NewProbe(ver)]

NextBuilder ==
  \/ \E n \in BuilderNames : WithName(n)
  \/ \E k \in BuilderKinds : WithKind(k)
  \/ \E fn \in BuilderCheckFns : WithCustomCheck(fn)
  \/ CallBuild
  \/ CallMustBuild
  \/ CallBuildDeadmansSnitch

SpecBuilder == InitBuilder /\ [][NextBuilder]_vars

\* -------------------------------------------------------- SpecComponents
\* An application that keeps a map of its components' readiness, asks the
\* builder of either package for the probes of its components, changes the
\* map as the components come and go, and runs the probes' checks one at a
\* time (the checks and the writes of the map do not overlap here).

\* The maps over the components "foo" and "bar" an application can hand
\* over: every map[string]bool with some of them as keys.
ComponentMaps == UNION {[S -> BOOLEAN] : S \in SUBSET {"foo", "bar"}}

\* A check that answers from the map as it was when the probes were built.
ComponentCheckAsBuilt(c) ==
  IF c \in DOMAIN cmp.readyAtCall /\ cmp.readyAtCall[c]
    THEN NilErr
    ELSE Error("readiness for component set to 'false'")

\* The check of the probe of component c: the closure holds the caller's
\* map itself and reads it when it runs; a missing key reads as false.
ComponentCheck(c) ==
  IF c \in DOMAIN cmp.ready /\ cmp.ready[c]
    THEN NilErr
    ELSE Error("readiness for component set to 'false'")

\* The probes BuildForComponents builds, as a set (they are appended in the
\* order of a range over a map). pkg/healthcheck: one for every key of roles
\* with the value true; pkg/factories takes no roles: one for every key of
\* the map of the components. The check is written as the variable its
\* closure captures.
BuildForComponents(kind, ready, roles, ver) ==
  IF ver = "v1"
    THEN {Build(ProbeV1("component " \o c, kind, [c |-> c], FALSE), ver) :
            c \in {d \in DOMAIN roles : roles[d]}}
    ELSE {Build(ProbeV2("component " \o c, kind, [c |-> c]), ver) :
            c \in DOMAIN ready}

\* The application calls BuildForComponents(kind, ready)(roles), or
\* BuildForComponents(kind, ready) of pkg/factories, and keeps the list.
CallBuildForComponents(kind, roles) ==
  /\ ~cmp.called
  /\ \E l \in Orderings(BuildForComponents(kind, cmp.ready, roles, cmp.ver)) :
       cmp' = [cmp EXCEPT !.called = TRUE,
                          !.kind = kind,
                          !.roles = IF cmp.ver = "v1" THEN roles ELSE <<>>,
                          !.probes = l,
                          !.readyAtCall = cmp.ready]
  /\ UNCHANGED <<engineVars, appVars, mu, callers, ug, body, scrape, bld, srv, histVars>>

\* componentsStatus[c] = v
SetComponentReady(c, v) ==
  /\ cmp' = [cmp EXCEPT !.ready = MapSet(cmp.ready, c, v)]
  /\ UNCHANGED <<engineVars, appVars, mu, callers, ug, body, scrape, bld, srv, histVars>>

\* A round runs the check of the i-th probe.
RunComponentCheck(i) ==
  /\ cmp.called
  /\ i \in DOMAIN cmp.probes
  /\ LET c == CheckFnOf(cmp.probes[i]).c
     IN cmp' = [cmp EXCEPT !.last = [c |-> c, err |-> ComponentCheck(c),
                                     ready |-> cmp.ready]]
  /\ UNCHANGED <<engineVars, appVars, mu, callers, ug, body, scrape, bld, srv, histVars>>

InitComponents ==
  /\ impl = "service"
  /\ probes = <<>>
  /\ mainpc = "idle"
  /\ launched = 0
  /\ gpc = <<>>
  /\ gres = <<>>
  /\ wg = 0
  /\ closed = FALSE
  /\ rr = <<>>
  /\ ctxDone = FALSE
  /\ crashed = FALSE
  /\ InitApp
  /\ mu = Unlocked
  /\ callers = <<>>
  /\ ug = NoUpdate
  /\ body = <<>>
  /\ scrape = NoScrape
  /\ srv = NoServer
  /\ bld = NoBuilder
  /\ invoked = <<>>
  /\ ctxAtCall = FALSE
  /\ \E ver \in {"v1", "v2"}, m \in ComponentMaps :
       cmp = [NoComponents EXCEPT !.ver = ver, !.ready = m]

NextComponents ==
  \/ \E k \in {"", ReadinessProbeKind}, roles \in ComponentMaps :
       CallBuildForComponents(k, roles)
  \/ \E c \in {"foo", "bar"}, v \in BOOLEAN : SetComponentReady(c, v)
  \/ \E i \in 1..2 : RunComponentCheck(i)

SpecComponents == InitComponents /\ [][NextComponents]_vars

\* -------------------------------------------------------------- SpecSink
\* The server with its probes registered at start-up: requests to the probe
\* endpoints one after the other, each with its own context, the gauge
\* writes of the UpdateGauge goroutines they leave behind, and requests to
\* /metrics at any moment.

\* The probes registered at start-up: a Liveness probe whose check honours
\* the context of the request, a Liveness probe whose check fails and a
\* Readiness probe whose check panics.
SinkProbes ==
  {ProbeV2("a", LivenessProbeKind, "ctx"), ProbeV2("c", LivenessProbeKind, "fail"),
   ProbeV2("b", ReadinessProbeKind, "panic")}

\* The probe of the examples: NewProbeBuilder().BuildDeadmansSnitch().
DeadmansSnitch == BuildDeadmansSnitch(NewProbe("v2"), "v2")

\* What is registered at start-up: the three probes, or the dead man's
\* snitch alone.
SinkRegistries == {SinkProbes, {DeadmansSnitch}}

\* The endpoints requested: /live and /ready.
SinkKinds == {LivenessProbeKind, ReadinessProbeKind}

\* The client of the request being served goes away: net/http cancels
\* r.Context().
RequestCancelled ==
  /\ mainpc \notin {"idle", "exited"}
  /\ Cancel

\* A /metrics that refreshes the gauge of every registered probe before it
\* writes it.
ServeMetricsRefreshing ==
  /\ ~crashed
  /\ gauge' = [l \in {<<sprobes[n].Kind, n>> : n \in DOMAIN sprobes} |-> 0] @@ gauge
  /\ scrape' = [taken |-> TRUE, round |-> 0, results |-> <<>>, seen |-> gauge']
  /\ UNCHANGED engineVars
  /\ UNCHANGED <<hprobes, sprobes, lastAdd, pending, req, status, results, rounds, writes>>
  /\ UNCHANGED <<mu, callers, ug, body, bld, cmp, srv, histVars>>

\* A request to /metrics: the handler of the metrics service writes the
\* gauge as it is now. (history: the number and the results of the round
\* that had responded when the request came in, if no later one is running)
ServeMetrics ==
  /\ ~crashed
  /\ "/metrics" \in MuxPaths
  /\ scrape' = [taken |-> TRUE,
                round |-> IF mainpc = "idle" /\ req.via = "endpoint" THEN rounds ELSE 0,
                results |-> IF mainpc = "idle" /\ req.via = "endpoint" THEN results ELSE <<>>,
                seen |-> gauge]
  /\ UNCHANGED <<engineVars, appVars, mu, callers, ug, body, bld, cmp, srv, histVars>>

InitSink ==
  /\ impl = "service"
  /\ probes = <<>>
  /\ mainpc = "idle"
  /\ launched = 0
  /\ gpc = <<>>
  /\ gres = <<>>
  /\ wg = 0
  /\ closed = FALSE
  /\ rr = <<>>
  /\ ctxDone = FALSE
  /\ crashed = FALSE
  /\ hprobes = <<>>
  /\ \E reg \in SinkRegistries : \E pp \in Orderings(reg) :
       /\ sprobes = Add(<<>>, pp)
       /\ lastAdd = [n \in {p.Name : p \in reg} |->
                       [probe |-> LastNamed(pp, n), replaced |-> FALSE]]
  /\ gauge = <<>>
  /\ pending = {}
  /\ req = NoRequest
  /\ status = 0
  /\ results = <<>>
  /\ rounds = 0
  /\ writes = 1
  /\ InitExt

NextSink ==
  \/ \E k \in SinkKinds : ServeRound(k, MaxRounds)
  \/ Engine
  \/ RequestCancelled
  \/ ExecuteProbesReturn
  \/ \E w \in pending : GaugeWrite(w)
  \/ ServeMetrics

SpecSink == InitSink /\ [][NextSink]_vars

\* The server under a scheduler that lets every runnable goroutine run: the
\* goroutines of a round, the endpoint function that called it, and the
\* goroutines of UpdateGauge that "go s.metricsService.UpdateGauge(...)"
\* started.
SpecSinkFair ==
  /\ SpecSink
  /\ WF_vars(Engine)
  /\ WF_vars(ExecuteProbesReturn)
  /\ WF_vars(\E w \in pending : GaugeWrite(w))

\* ------------------------------------------------------------- SpecStore
\* The probe store under concurrent callers: every method takes s.mu, runs
\* its body and releases s.mu in a deferred call when it returns.

\* A method that reads the map without taking the lock.
LockKindUnguardedGet(op) ==
  CASE op \in {"Add", "Delete"} -> "Lock"
    [] op = "Get" -> "none"
    [] OTHER -> "RLock"

\* The lock a method of the store takes: s.mu.Lock() in Add and Delete,
\* s.mu.RLock() in Get, GetAll and GetByKind.
LockKind(op) == IF op \in {"Add", "Delete"} THEN "Lock" ELSE "RLock"

Callers == 1..MaxCallers

\* A caller that is not inside a method of the store.
\* (before is history: the map as Add or Delete found it.)
IdleCaller == [pc |-> "idle", op |-> "", arg |-> <<>>, ret |-> {}, before |-> <<>>]

\* The probes callers hand to Add: those of the examples and the zero Probe
\* (Add takes any Probe value).
StoreCallProbes == ServiceProbes \cup {ZeroProbe}

\* The calls made on the store.
StoreCalls ==
  {[op |-> "Add", arg |-> <<p>>] : p \in StoreCallProbes}
    \cup {[op |-> "Add", arg |-> <<ProbeV2("b", LivenessProbeKind, "fail"),
                                  ProbeV2("c", StartupProbeKind, "ok")>>]}
    \cup {[op |-> "Delete", arg |-> <<n>>] : n \in ServiceNames \cup {""}}
    \cup {[op |-> "Delete", arg |-> <<"a", "b">>]}
    \cup {[op |-> "Get", arg |-> <<n>>] : n \in ServiceNames \cup {""}}
    \cup {[op |-> "GetAll", arg |-> <<>>]}
    \cup {[op |-> "GetByKind", arg |-> <<k>>] : k \in {LivenessProbeKind, CustomProbeKind}}

\* Caller c enters a method of the store.
CallStore(c, call) ==
  /\ callers[c].pc = "idle"
  /\ call.op \in {"Add", "Delete"} => writes < MaxWrites
  /\ writes' = IF call.op \in {"Add", "Delete"} THEN writes + 1 ELSE writes
  /\ callers' = [callers EXCEPT ![c] = [pc |-> "lock", op |-> call.op,
                                        arg |-> call.arg, ret |-> {},
                                        before |-> <<>>]]
  /\ UNCHANGED <<hprobes, sprobes, lastAdd, gauge, pending, req, status, results, rounds>>
  /\ UNCHANGED <<engineVars, mu, ug, body, scrape, bld, cmp, srv, histVars>>

\* s.mu.Lock() returns once no reader and no writer holds the mutex;
\* s.mu.RLock() returns once no writer holds it.
AcquireLock(c) ==
  /\ callers[c].pc = "lock"
  /\ CASE LockKind(callers[c].op) = "Lock" ->
            /\ ~mu.writer /\ mu.readers = 0
            /\ mu' = [mu EXCEPT !.writer = TRUE]
       [] LockKind(callers[c].op) = "RLock" ->
            /\ ~mu.writer
            /\ mu' = [mu EXCEPT !.readers = @ + 1]
       [] OTHER -> mu' = mu
  /\ callers' = [callers EXCEPT ![c].pc = "body"]
  /\ UNCHANGED <<engineVars, appVars, ug, body, scrape, bld, cmp, srv, histVars>>

\* The body of the method caller c is in, on the map as it is now.
StoreBody(c) ==
  /\ callers[c].pc = "body"
  /\ LET op == callers[c].op
         arg == callers[c].arg
     IN /\ sprobes' = CASE op = "Add" -> Add(sprobes, arg)
                        [] op = "Delete" -> Delete(sprobes, arg)
                        [] OTHER -> sprobes
        /\ callers' = [callers EXCEPT
             ![c].pc = "unlock",
             ![c].ret = CASE op = "Get" -> {Get(arg[1])}
                          [] op = "GetAll" -> GetAll
                          [] op = "GetByKind" -> GetByKind(arg[1])
                          [] OTHER -> {},
             ![c].before = IF op \in {"Add", "Delete"} THEN sprobes ELSE <<>>]
  /\ UNCHANGED <<hprobes, lastAdd, gauge, pending, req, status, results, rounds, writes>>
  /\ UNCHANGED <<engineVars, mu, ug, body, scrape, bld, cmp, srv, histVars>>

\* The deferred s.mu.Unlock() / s.mu.RUnlock(); the method returns.
ReleaseLock(c) ==
  /\ callers[c].pc = "unlock"
  /\ mu' = CASE LockKind(callers[c].op) = "Lock" -> [mu EXCEPT !.writer = FALSE]
             [] LockKind(callers[c].op) = "RLock" -> [mu EXCEPT !.readers = @ - 1]
             [] OTHER -> mu
  /\ callers' = [callers EXCEPT ![c] = IdleCaller]
  /\ UNCHANGED <<engineVars, appVars, ug, body, scrape, bld, cmp, srv, histVars>>

InitStore ==
  /\ impl = "service"
  /\ probes = <<>>
  /\ mainpc = "idle"
  /\ launched = 0
  /\ gpc = <<>>
  /\ gres = <<>>
  /\ wg = 0
  /\ closed = FALSE
  /\ rr = <<>>
  /\ ctxDone = FALSE
  /\ crashed = FALSE
  /\ InitApp
  /\ mu = Unlocked
  /\ callers = [c \in Callers |-> IdleCaller]
  /\ ug = NoUpdate
  /\ body = <<>>
  /\ scrape = NoScrape
  /\ bld = NoBuilder
  /\ srv = NoServer
  /\ cmp = NoComponents
  /\ invoked = <<>>
  /\ ctxAtCall = FALSE

NextStore ==
  \/ \E c \in Callers : \E call \in StoreCalls : CallStore(c, call)
  \/ \E c \in Callers : AcquireLock(c)
  \/ \E c \in Callers : StoreBody(c)
  \/ \E c \in Callers : ReleaseLock(c)

SpecStore == InitStore /\ [][NextStore]_vars

\* -------------------------------------------------------- SpecHandlerMap
\* The probe map of the handler of pkg/healthcheck/handler.go under
\* concurrent callers: RegisterProbes and UnregisterProbes take h.mu (a
\* sync.Mutex) around their loop; GetProbe and GetProbesByKind, and Execute
\* through GetProbesByKind, read h.probes without taking it.

\* The calls made on the handler.
HandlerCalls ==
  {[op |-> "RegisterProbes", arg |-> pp] : pp \in ArgLists(HandlerProbes)}
    \cup {[op |-> "UnregisterProbes", arg |-> <<n>>] : n \in HandlerNames}
    \cup {[op |-> "GetProbe", arg |-> <<n>>] : n \in HandlerNames}
    \cup {[op |-> "GetProbesByKind", arg |-> <<k>>] : k \in {Health, Liveness}}
    \cup {[op |-> "Execute", arg |-> <<k>>] : k \in {Health, Liveness}}

\* Caller c enters a method of the handler: h.mu.Lock() in RegisterProbes
\* and UnregisterProbes returns once nobody holds the mutex; the other
\* methods go straight to their body.
HandlerEnter(c, call) ==
  /\ ~crashed
  /\ callers[c].pc = "idle"
  /\ IF call.op \in {"RegisterProbes", "UnregisterProbes"}
       THEN ~mu.writer /\ mu' = [mu EXCEPT !.writer = TRUE]
       ELSE mu' = mu
  /\ callers' = [callers EXCEPT ![c] = [pc |-> "body", op |-> call.op,
                                        arg |-> call.arg, ret |-> {},
                                        before |-> <<>>]]
  /\ UNCHANGED <<engineVars, appVars, ug, body, scrape, bld, cmp, srv, histVars>>

\* The body of the method caller c is in, on the map as it is now: the
\* loop of RegisterProbes or UnregisterProbes, the lookup of GetProbe (nil
\* or the probe), the loop of GetProbesByKind, which is also what Execute
\* hands to the executor.
HandlerBody(c) ==
  /\ ~crashed
  /\ callers[c].pc = "body"
  /\ LET op == callers[c].op
         arg == callers[c].arg
     IN /\ hprobes' = CASE op = "RegisterProbes" -> RegisterAll(hprobes, arg)
                        [] op = "UnregisterProbes" -> UnregisterAll(hprobes, arg)
                        [] OTHER -> hprobes
        /\ callers' = [callers EXCEPT
             ![c].pc = "unlock",
             ![c].ret = CASE op = "GetProbe" ->
                               IF arg[1] \in DOMAIN hprobes THEN {hprobes[arg[1]]} ELSE {}
                          [] op \in {"GetProbesByKind", "Execute"} -> GetProbesByKind(arg[1])
                          [] OTHER -> {}]
  /\ UNCHANGED <<sprobes, lastAdd, gauge, pending, req, status, results, rounds, writes>>
  /\ UNCHANGED <<engineVars, mu, ug, body, scrape, bld, cmp, srv, histVars>>

\* Caller c reads the map while another caller is in the loop that writes
\* it: a data race. Besides reading the map as it was or as it will be
\* (HandlerBody), the Go runtime may detect it and end the process ("fatal
\* error: concurrent map read and map write").
HandlerFault(c) ==
  /\ ~crashed
  /\ callers[c].pc = "body"
  /\ callers[c].op \notin {"RegisterProbes", "UnregisterProbes"}
  /\ \E d \in DOMAIN callers \ {c} :
       callers[d].pc = "body" /\ callers[d].op \in {"RegisterProbes", "UnregisterProbes"}
  /\ crashed' = TRUE
  /\ mainpc' = "exited"
  /\ hprobes' = <<>>
  /\ callers' = [d \in DOMAIN callers |-> IdleCaller]
  /\ mu' = Unlocked
  /\ UNCHANGED <<impl, probes, launched, gpc, gres, wg, closed, rr, ctxDone>>
  /\ UNCHANGED <<sprobes, lastAdd, gauge, pending, req, status, results, rounds, writes>>
  /\ UNCHANGED <<ug, body, scrape, bld, cmp, srv, histVars>>

\* The method caller c is in returns; the deferred h.mu.Unlock() of
\* RegisterProbes and UnregisterProbes runs.
HandlerLeave(c) ==
  /\ ~crashed
  /\ callers[c].pc = "unlock"
  /\ mu' = IF callers[c].op \in {"RegisterProbes", "UnregisterProbes"}
             THEN [mu EXCEPT !.writer = FALSE]
             ELSE mu
  /\ callers' = [callers EXCEPT ![c] = IdleCaller]
  /\ UNCHANGED <<engineVars, appVars, ug, body, scrape, bld, cmp, srv, histVars>>

InitHandlerMap ==
  /\ impl = "executor"
  /\ probes = <<>>
  /\ mainpc = "idle"
  /\ launched = 0
  /\ gpc = <<>>
  /\ gres = <<>>
  /\ wg = 0
  /\ closed = FALSE
  /\ rr = <<>>
  /\ ctxDone = FALSE
  /\ crashed = FALSE
  /\ InitApp
  /\ mu = Unlocked
  /\ callers = [c \in Callers |-> IdleCaller]
  /\ ug = NoUpdate
  /\ body = <<>>
  /\ scrape = NoScrape
  /\ bld = NoBuilder
  /\ srv = NoServer
  /\ cmp = NoComponents
  /\ invoked = <<>>
  /\ ctxAtCall = FALSE

NextHandlerMap ==
  \/ \E c \in Callers : \E call \in HandlerCalls : HandlerEnter(c, call)
  \/ \E c \in Callers : HandlerBody(c)
  \/ \E c \in Callers : HandlerFault(c)
  \/ \E c \in Callers : HandlerLeave(c)

SpecHandlerMap == InitHandlerMap /\ [][NextHandlerMap]_vars

\* ------------------------------------------------------------- SpecStart
\* Start and Stop of the handler of pkg/healthcheck/handler.go: each caller
\* of Start starts a goroutine that runs h.server.ListenAndServe() and then
\* h.serverCancelCtx(), and waits for h.serverCtx to be done; Stop closes
\* the server and cancels the same context.

\* Caller c calls Start: "go func() {...}()", then it blocks at
\* "<-h.serverCtx.Done()".
Start(c) ==
  /\ srv.start[c] = "idle"
  /\ srv' = [srv EXCEPT !.start[c] = "wait", !.lsn[c] = "new"]
  /\ UNCHANGED <<engineVars, appVars, mu, callers, ug, body, scrape, bld, cmp, histVars>>

\* The goroutine of c calls h.server.ListenAndServe(): it returns
\* ErrServerClosed at once if the server has been closed; net.Listen fails
\* if the port is taken, by the listener of another Start or by another
\* process; otherwise the server listens and serves.
ListenAndServe(c) ==
  /\ srv.lsn[c] = "new"
  /\ \/ srv' = [srv EXCEPT !.lsn[c] = "returned"]
     \/ /\ ~srv.inShutdown
        /\ srv.listening = 0
        /\ srv' = [srv EXCEPT !.lsn[c] = "serving", !.listening = c]
  /\ UNCHANGED <<engineVars, appVars, mu, callers, ug, body, scrape, bld, cmp, histVars>>

\* ListenAndServe returns to the goroutine of c from serving: with
\* ErrServerClosed after Close, or because accepting failed.
ServeReturns(c) ==
  /\ srv.lsn[c] = "serving"
  /\ srv' = [srv EXCEPT !.lsn[c] = "returned",
                        !.listening = IF @ = c THEN 0 ELSE @]
  /\ UNCHANGED <<engineVars, appVars, mu, callers, ug, body, scrape, bld, cmp, histVars>>

\* A goroutine that ends when ListenAndServe has returned, without
\* cancelling the context.
ListenerReturns(c) ==
  /\ srv.lsn[c] = "returned"
  /\ srv' = [srv EXCEPT !.lsn[c] = "finished"]
  /\ UNCHANGED <<engineVars, appVars, mu, callers, ug, body, scrape, bld, cmp, histVars>>

\* The goroutine of c after ListenAndServe has returned (it always returns
\* an error, which is printed): h.serverCancelCtx(), and the goroutine ends.
ListenerCancels(c) ==
  /\ srv.lsn[c] = "returned"
  /\ srv' = [srv EXCEPT !.lsn[c] = "finished", !.done = TRUE]
  /\ UNCHANGED <<engineVars, appVars, mu, callers, ug, body, scrape, bld, cmp, histVars>>

\* "<-h.serverCtx.Done()" of caller c: the context is done, Start returns.
StartReturns(c) ==
  /\ srv.start[c] = "wait"
  /\ srv.done
  /\ srv' = [srv EXCEPT !.start[c] = "returned"]
  /\ UNCHANGED <<engineVars, appVars, mu, callers, ug, body, scrape, bld, cmp, histVars>>

\* Stop, first statement: h.server.Close() closes the listener, if there is
\* one, and marks the server as shut down.
StopClose ==
  /\ srv.stop = "idle"
  /\ srv' = [srv EXCEPT !.stop = "closed", !.inShutdown = TRUE, !.listening = 0]
  /\ UNCHANGED <<engineVars, appVars, mu, callers, ug, body, scrape, bld, cmp, histVars>>

\* Stop, the rest: h.serverCancelCtx(); h.serverCtx.Done() only returns the
\* channel; Stop returns.
StopCancel ==
  /\ srv.stop = "closed"
  /\ srv' = [srv EXCEPT !.stop = "returned", !.done = TRUE]
  /\ UNCHANGED <<engineVars, appVars, mu, callers, ug, body, scrape, bld, cmp, histVars>>

InitStart ==
  /\ impl = "executor"
  /\ probes = <<>>
  /\ mainpc = "idle"
  /\ launched = 0
  /\ gpc = <<>>
  /\ gres = <<>>
  /\ wg = 0
  /\ closed = FALSE
  /\ rr = <<>>
  /\ ctxDone = FALSE
  /\ crashed = FALSE
  /\ InitApp
  /\ mu = Unlocked
  /\ callers = <<>>
  /\ ug = NoUpdate
  /\ body = <<>>
  /\ scrape = NoScrape
  /\ bld = NoBuilder
  /\ srv = [NoServer EXCEPT !.start = [c \in Callers |-> "idle"],
                            !.lsn = [c \in Callers |-> "none"]]
  /\ cmp = NoComponents
  /\ invoked = <<>>
  /\ ctxAtCall = FALSE

NextStart ==
  \/ \E c \in Callers : Start(c)
  \/ \E c \in Callers : ListenAndServe(c)
  \/ \E c \in Callers : ServeReturns(c)
  \/ \E c \in Callers : ListenerCancels(c)
  \/ \E c \in Callers : StartReturns(c)
  \/ StopClose
  \/ StopCancel

\* The scheduler lets every goroutine that can run take its next step, and
\* a closed server stops serving; nothing makes anybody call Start or Stop,
\* and nothing makes a serving listener fail.
SpecStart ==
  /\ InitStart
  /\ [][NextStart]_vars
  /\ \A c \in Callers :
       /\ WF_vars(ListenAndServe(c))
       /\ WF_vars(srv.inShutdown /\ ServeReturns(c))
       /\ WF_vars(ListenerCancels(c))
       /\ WF_vars(StartReturns(c))
  /\ WF_vars(StopCancel)

\* ----------------------------------------------------------- SpecMetrics
\* prometheusMetricsService.UpdateGauge called on result lists, one call
\* after the other.

\* The results handed to UpdateGauge: results of service.executeProbes for
\* a probe whose check honours the context (it succeeds, or fails once the
\* context is cancelled) and for a probe whose check fails.
MetricsResults ==
  {ServiceResult(ProbeV2("a", LivenessProbeKind, "ctx"), NilErr),
   ServiceResult(ProbeV2("a", LivenessProbeKind, "ctx"), Error("context canceled")),
   ServiceResult(ProbeV2("b", StartupProbeKind, "fail"), Error("boom"))}

\* UpdateGauge(executionResults...) is called.
UpdateGaugeCall(rs) ==
  /\ ug.pc = "idle"
  /\ ug.calls < MaxRounds
  /\ ug' = [pc |-> IF rs = <<>> THEN "wait" ELSE "spawn", rs |-> rs, spawned |-> 0,
            go |-> [i \in DOMAIN rs |-> "new"], before |-> gauge,
            calls |-> ug.calls + 1, repeat |-> (ug.calls > 0 /\ rs = ug.rs)]
  /\ UNCHANGED <<engineVars, appVars, mu, callers, body, scrape, bld, cmp, srv, histVars>>

\* One iteration of the loop: wg.Add(1); go func(e ExecutionResult) {...}.
UpdateGaugeSpawn ==
  /\ ug.pc = "spawn"
  /\ ug' = [ug EXCEPT !.spawned = @ + 1,
                      !.go[ug.spawned + 1] = "run",
                      !.pc = IF ug.spawned + 1 = Len(ug.rs) THEN "wait" ELSE "spawn"]
  /\ UNCHANGED <<engineVars, appVars, mu, callers, body, scrape, bld, cmp, srv, histVars>>

\* Goroutine i runs: the switch on p.Health with its Set, then wg.Done().
UpdateGaugeSet(i) ==
  /\ ug.go[i] = "run"
  /\ LET ws == {w \in UpdateGauge(ug.rs, ug.calls) : w.idx = i}
     IN gauge' = IF ws = {} THEN gauge
                 ELSE LET w == CHOOSE w \in ws : TRUE
                      IN GaugeSet(gauge, w.kind, w.name, w.val)
  /\ ug' = [ug EXCEPT !.go[i] = "done"]
  /\ UNCHANGED <<hprobes, sprobes, lastAdd, pending, req, status, results, rounds, writes>>
  /\ UNCHANGED <<engineVars, mu, callers, body, scrape, bld, cmp, srv, histVars>>

\* An UpdateGauge that returns without waiting for its goroutines.
UpdateGaugeReturnNoWait ==
  /\ ug.pc = "wait"
  /\ ug' = [ug EXCEPT !.pc = "idle"]
  /\ UNCHANGED <<engineVars, appVars, mu, callers, body, scrape, bld, cmp, srv, histVars>>

\* wg.Wait() returns once every goroutine has called wg.Done(); UpdateGauge
\* returns.
UpdateGaugeReturn ==
  /\ ug.pc = "wait"
  /\ \A i \in DOMAIN ug.go : ug.go[i] = "done"
  /\ ug' = [ug EXCEPT !.pc = "idle"]
  /\ UNCHANGED <<engineVars, appVars, mu, callers, body, scrape, bld, cmp, srv, histVars>>

InitMetrics ==
  /\ impl = "service"
  /\ probes = <<>>
  /\ mainpc = "idle"
  /\ launched = 0
  /\ gpc = <<>>
  /\ gres = <<>>
  /\ wg = 0
  /\ closed = FALSE
  /\ rr = <<>>
  /\ ctxDone = FALSE
  /\ crashed = FALSE
  /\ InitApp
  /\ InitExt

NextMetrics ==
  \/ \E rs \in ListsUpTo(MetricsResults, MaxProbes) : UpdateGaugeCall(rs)
  \/ UpdateGaugeSpawn
  \/ \E i \in DOMAIN ug.go : UpdateGaugeSet(i)
  \/ UpdateGaugeReturn

SpecMetrics == InitMetrics /\ [][NextMetrics]_vars

\* ================================================================ claims
\* What identifies a probe in a result: the result holds a copy of the
\* probe, in which the service engine has set Health.
Identity(p) == <<p.Name, p.Kind, CheckFnOf(p)>>

Failed(r) == IF impl = "executorStr" THEN r.Err # "" ELSE ~r.Err.isNil

\* The check of probe p returns an error whenever it is run.
CheckFails(p) == CheckFnOf(p) \in {"fail", "failEmpty", "snitch"}

\* C1: when Execute (executor.Execute, service.executeProbes) has returned,
\* it has returned exactly |P| results, and every input probe has as many
\* results as it has occurrences in P: one result per input probe.
C1_OneResultPerProbe ==
  mainpc = "returned" =>
    /\ Len(rr) = Len(probes)
    /\ \A p \in Range(probes) :
         Cardinality({j \in DOMAIN rr : Identity(rr[j].Probe) = Identity(p)})
           = Cardinality({i \in DOMAIN probes : probes[i] = p})

\* C1 witness: a call on several distinct probes, some failing and some
\* succeeding, has returned.
C1_Witness ==
  /\ mainpc = "returned"
  /\ Len(probes) >= 2
  /\ Cardinality(Range(probes)) >= 2
  /\ \E j \in DOMAIN rr : Failed(rr[j])
  /\ \E j \in DOMAIN rr : ~Failed(rr[j])

\* C4 (as claimed): a check that panics is turned into a failure of its own
\* probe and never ends the process, so Execute still returns.
C4_PanicDoesNotPropagate == ~crashed

\* C5: Execute has returned only if every probe goroutine it launched has
\* finished its check and handed over its result, cancelled context or not.
C5_ReturnsAfterAllCollected ==
  mainpc = "returned" =>
    /\ launched = Len(probes)
    /\ \A i \in Idx : gpc[i] = "done"
    /\ \A i \in Idx : \E j \in DOMAIN rr : rr[j] = gres[i]

\* C5 witness: a call whose context was cancelled while it ran has returned
\* the result of a check that saw the cancellation.
C5_Witness ==
  /\ mainpc = "returned"
  /\ ctxDone
  /\ Len(probes) >= 2
  /\ \E j \in DOMAIN rr : CheckFnOf(rr[j].Probe) = "ctx" /\ Failed(rr[j])

\* C17: a call of Execute whose context was already cancelled when it was
\* made does not end the process as long as no check panics, and when it
\* has returned, every probe's check has been called exactly once, there
\* are as many results as probes, and every result of a check that honours
\* the context is a failure.
C17_CancelledContextStillRunsAll ==
  (ctxAtCall /\ \A p \in Range(probes) : CheckFnOf(p) # "panic") =>
    /\ ~crashed
    /\ \A i \in DOMAIN invoked : invoked[i] <= 1
    /\ mainpc = "returned" =>
         /\ \A i \in DOMAIN probes : invoked[i] = 1
         /\ Len(rr) = Len(probes)
         /\ \A j \in DOMAIN rr : CheckFnOf(rr[j].Probe) = "ctx" => Failed(rr[j])

\* C17 witness: a call made with a cancelled context has returned the
\* failure of a check that honours the context next to the success of a
\* check that does not look at it.
C17_Witness ==
  /\ mainpc = "returned"
  /\ ctxAtCall
  /\ \E j \in DOMAIN rr : CheckFnOf(rr[j].Probe) = "ctx" /\ Failed(rr[j])
  /\ \E j \in DOMAIN rr : CheckFnOf(rr[j].Probe) = "ok" /\ ~Failed(rr[j])

\* The checks that are in flight: called and not yet returned.
InFlight == {i \in DOMAIN gpc : gpc[i] = "check"}

\* C18: whatever checks are in flight, the loop of Execute can start the
\* next probe's goroutine, and every check in flight that returns at all
\* can return, without any other check returning first.
C18_ChecksStartWithoutWaiting ==
  ~crashed =>
    /\ mainpc = "launch" => ENABLED Launch
    /\ \A i \in InFlight :
         CheckFnOf(GoroutineProbe(i)) # "panic" => ENABLED CheckReturns(i)

\* C18 witness: the checks of all probes of a round of two or more are in
\* flight at the same time, none has returned.
C18_Witness ==
  /\ ~crashed
  /\ Len(probes) >= 2
  /\ InFlight = DOMAIN probes
  /\ mainpc = "collect"

\* C28: when executor.Execute or service.executeProbes has returned, every
\* result holds the error its own probe's check returns, nil for a check
\* that succeeds and the returned error (be its message empty) for one
\* that fails; only a check that honours the context depends on anything
\* but itself, namely on the context being cancelled; and whatever checks
\* failed, every probe has as many results as it occurs in the list.
C28_ResultCarriesOwnOutcome ==
  (impl \in {"executor", "service"} /\ mainpc = "returned") =>
    /\ \A j \in DOMAIN rr :
         LET p == rr[j].Probe
         IN /\ rr[j].Err \in {ProbeExecute(p, FALSE), ProbeExecute(p, TRUE)}
            /\ rr[j].Err # ProbeExecute(p, FALSE) => ctxDone
            /\ rr[j].Err.isNil <=> ~(CheckFails(p) \/ rr[j].Err = Error("context canceled"))
    /\ \A p \in Range(probes) :
         Cardinality({j \in DOMAIN rr : Identity(rr[j].Probe) = Identity(p)})
           = Cardinality({i \in DOMAIN probes : probes[i] = p})

\* C28 witness: a round has returned a failure with its message, a failure
\* whose message is empty and a success side by side.
C28_Witness ==
  /\ impl \in {"executor", "service"}
  /\ mainpc = "returned"
  /\ \E j \in DOMAIN rr : rr[j].Err = Error("boom")
  /\ \E j \in DOMAIN rr : rr[j].Err = Error("")
  /\ \E j \in DOMAIN rr : rr[j].Err = NilErr

\* C32: every result a probe goroutine of the service has built, and so
\* every result of the round, has a probe that is unhealthy if the result
\* carries an error and healthy if it carries none, never the unknown
\* health the probe was registered with; so the status the endpoint function
\* derives from the health fields of a returned round is the one the errors
\* give: 503 if some result has an error, else 204.
C32_HealthMirrorsError ==
  impl = "service" =>
    /\ \A i \in Idx : gpc[i] \in {"send", "sent", "done"} =>
         gres[i].Probe.Health
           = IF gres[i].Err.isNil THEN HealthyStatus ELSE UnhealthyStatus
    /\ \A j \in DOMAIN rr :
         rr[j].Probe.Health = IF rr[j].Err.isNil THEN HealthyStatus ELSE UnhealthyStatus
    /\ mainpc = "returned" =>
         EndpointStatus(rr) = IF \E j \in DOMAIN rr : ~rr[j].Err.isNil
                                THEN StatusServiceUnavailable
                                ELSE StatusNoContent

\* C32 witness: a service round has returned a healthy probe and a probe
\* that is unhealthy by an error whose message is empty; both were
\* registered with unknown health.
C32_Witness ==
  /\ impl = "service"
  /\ mainpc = "returned"
  /\ \A i \in DOMAIN probes : probes[i].Health = ""
  /\ \E j \in DOMAIN rr :
       rr[j].Err = Error("") /\ rr[j].Probe.Health = UnhealthyStatus
  /\ \E j \in DOMAIN rr :
       rr[j].Err = NilErr /\ rr[j].Probe.Health = HealthyStatus

\* C27: the channel is closed only when every probe goroutine has handed
\* over its result and finished, it is closed once and stays closed, and
\* no goroutine is left at its send when the channel is closed; a call on
\* probes whose checks all return, the empty list included, eventually
\* returns with one result per probe and every goroutine finished.
C27_ExecuteTerminates ==
  /\ [](closed => (launched = Len(probes) /\ \A i \in Idx : gpc[i] = "done"))
  /\ [][(closed' # closed) => (~closed /\ wg = 0)]_vars
  /\ (\A p \in Range(probes) : CheckFnOf(p) # "panic") =>
       <>(/\ mainpc = "returned"
          /\ Len(rr) = Len(probes)
          /\ \A i \in Idx : gpc[i] = "done")

\* C27 witness: the call on the empty probe list has returned the empty
\* result list, the channel closed.
C27_Witness ==
  /\ mainpc = "returned"
  /\ probes = <<>>
  /\ rr = <<>>
  /\ closed

\* ---------------------------------------------------- claims, SpecHandler
\* A response has been written and no new request has started: rr and
\* probes are those of the round the response belongs to.
Responded == mainpc = "idle" /\ status # 0

\* C2 (as claimed): after a round of the handler, the outcome is Unhealthy
\* (503) if and only if a probe of the round that is not informational-only
\* has a failing check, whatever informational-only probes did in the round.
C2_UnhealthyIffNonInformationalFailure ==
  Responded =>
    (status = StatusServiceUnavailable
       <=> \E p \in Range(probes) : CheckFails(p) /\ ~p.IsInformationalOnly)

\* C3 (as claimed): after a round in which an informational-only probe
\* failed, the gauge series of that probe's (kind, name) holds 1.
C3_InformationalFailureGaugeIsOne ==
  Responded =>
    \A j \in DOMAIN rr :
      (rr[j].Err # "" /\ rr[j].Probe.IsInformationalOnly) =>
        /\ <<rr[j].Probe.Kind, rr[j].Probe.Name>> \in DOMAIN gauge
        /\ gauge[<<rr[j].Probe.Kind, rr[j].Probe.Name>>] = 1

\* C13 (as claimed): /health answers 200 with one entry per probe of the
\* round, whether or not a check failed, and the entry of every probe whose
\* check failed carries the error.
C13_HealthAnswers200WithAllResults ==
  (Responded /\ req.kind = Health) =>
    /\ status = StatusOK
    /\ Len(results) = Len(probes)
    /\ \A j \in DOMAIN results : CheckFails(results[j].Probe) => results[j].Err # ""

\* ----------------------------------------------------- claims, SpecHandle
\* C33, as claimed: every gauge series a round sets is labelled with the
\* own kind and the name of a probe of that round, whichever endpoint was
\* requested, so that a probe has one series only.
C33_SeriesLabelledByOwnKind ==
  [][gauge' # gauge =>
       \A l \in DOMAIN gauge' :
         (l \notin DOMAIN gauge \/ gauge'[l] # gauge[l]) =>
           \E j \in DOMAIN rr : l = <<rr[j].Probe.Kind, rr[j].Probe.Name>>]_vars

\* ---------------------------------------------------- claims, SpecService
\* The step in which a round reads its probe list from the store.
RoundStarts == mainpc = "idle" /\ mainpc' = "call"

\* The step in which a round hands its results to the caller.
RoundReturns == mainpc = "returned" /\ mainpc' = "idle"

\* The probes registered for category k: all of them for the on-demand
\* category, those of kind k otherwise.
RegisteredFor(k) ==
  {p \in Range(sprobes) : k = CustomProbeKind \/ p.Kind = k}

\* C6: a round for a category with no registered probe (for the on-demand
\* category: an empty store) runs no probe, and a round that ran no probe
\* answers 204 with an empty result list.
C6_EmptyCategoryIsHealthy ==
  [][/\ (RoundStarts /\ RegisteredFor(req'.kind) = {}) => probes' = <<>>
     /\ (RoundReturns /\ probes = <<>>) =>
          (status' = StatusNoContent /\ results' = <<>>)]_vars

\* C6 witness: the readiness endpoint has answered 204 with no result while
\* probes of other kinds are registered.
C6_Witness ==
  /\ Responded
  /\ req.kind = ReadinessProbeKind
  /\ probes = <<>>
  /\ results = <<>>
  /\ status = StatusNoContent
  /\ DOMAIN sprobes # {}

C8_CategoryRunsOnlyItsKind ==
  [][/\ (RoundStarts /\ req'.kind # CustomProbeKind) =>
          Range(probes') = {p \in Range(sprobes) : p.Kind = req'.kind}
     /\ (RoundReturns /\ req.kind # CustomProbeKind) =>
          /\ \A j \in DOMAIN results' : results'[j].Probe.Kind = req.kind
          /\ status' = StatusServiceUnavailable
               <=> \E p \in Range(probes) : p.Kind = req.kind /\ CheckFails(p)]_vars

\* C8 witness: the startup endpoint has answered 204 with the result of the
\* one startup probe while a failing on-demand probe is registered.
C8_Witness ==
  /\ Responded
  /\ req.kind = StartupProbeKind
  /\ status = StatusNoContent
  /\ Len(results) = 1
  /\ \E n \in DOMAIN sprobes :
       sprobes[n].Kind = CustomProbeKind /\ CheckFails(sprobes[n])

\* C9: the store holds at most one probe per name, under the key of its
\* name, and Get(name) is the probe of the latest Add of that name, whole
\* (the zero Probe once the name is deleted).
C9_LastAddWins ==
  /\ DOMAIN sprobes = DOMAIN lastAdd
  /\ \A n \in DOMAIN lastAdd : Get(n) = lastAdd[n].probe /\ Get(n).Name = n
  /\ \A n \in ServiceNames \ DOMAIN lastAdd : Get(n) = ZeroProbe
  /\ Cardinality(GetAll) = Cardinality({p.Name : p \in GetAll})

\* C9 witness: a name holds a probe that an Add put in place of a different
\* probe of that name, next to a probe of another name.
C9_Witness ==
  /\ \E n \in DOMAIN lastAdd : lastAdd[n].replaced /\ Get(n) = lastAdd[n].probe
  /\ Cardinality(DOMAIN sprobes) >= 2

\* C10: no Add or Delete changes the probe list of a round or a returned
\* result list, and a round returns one result per probe of the list it
\* read, whatever happened to the store meanwhile.
C10_SnapshotUnaffectedByWrites ==
  [][~crashed' =>
       /\ sprobes' # sprobes => (probes' = probes /\ results' = results)
       /\ RoundReturns =>
            /\ Len(results') = Len(probes)
            /\ \A p \in Range(probes) :
                 Cardinality({j \in DOMAIN results' :
                                Identity(results'[j].Probe) = Identity(p)}) = 1]_vars

\* C10 witness: a round is collecting results for a list one of whose
\* probes has meanwhile been deleted from the store.
C10_Witness ==
  /\ mainpc = "collect"
  /\ Len(probes) >= 2
  /\ \E i \in DOMAIN probes : probes[i].Name \notin DOMAIN sprobes
  /\ \E i \in DOMAIN probes : probes[i].Name \in DOMAIN sprobes

\* C19, as claimed: the lookup of the store by the on-demand kind returns
\* every registered probe, whatever its kind.
C19_CatchAllLookupReturnsAll == GetByKind(CustomProbeKind) = GetAll

\* C25: a step that is not an Add or a Delete leaves the store as it is;
\* in particular the step in which a round returns: its results carry the
\* health classification, the stored probes carry none.
C25_RoundLeavesRegistryUnchanged ==
  [][~crashed' =>
       /\ writes' = writes => sprobes' = sprobes
       /\ RoundReturns =>
            /\ sprobes' = sprobes
            /\ \A j \in DOMAIN results' :
                 results'[j].Probe.Health \in {HealthyStatus, UnhealthyStatus}
            /\ \A n \in DOMAIN sprobes' : sprobes'[n].Health = ""]_vars

\* C25 witness: a round has returned a result classified unhealthy for a
\* probe that is in the store, unclassified and otherwise the same.
C25_Witness ==
  /\ Responded
  /\ \E j \in DOMAIN results :
       /\ results[j].Probe.Health = UnhealthyStatus
       /\ results[j].Probe.Name \in DOMAIN sprobes
       /\ sprobes[results[j].Probe.Name] = [results[j].Probe EXCEPT !.Health = ""]

\* C14: the endpoint functions of liveness, readiness and startup answer
\* 204 when no probe of the round failed its check and 503 when one did,
\* and no other status.
C14_CategoryAnswers204Or503 ==
  (Responded /\ req.kind \in {LivenessProbeKind, ReadinessProbeKind, StartupProbeKind}) =>
    /\ status \in {StatusNoContent, StatusServiceUnavailable}
    /\ status = StatusNoContent <=> \A p \in Range(probes) : ~CheckFails(p)
    /\ status = StatusServiceUnavailable <=> \E p \in Range(probes) : CheckFails(p)

\* C14 witness: /live has answered 503 for a round of two liveness probes,
\* one succeeding and one failing.
C14_Witness ==
  /\ Responded
  /\ req.kind = LivenessProbeKind
  /\ status = StatusServiceUnavailable
  /\ Len(results) = 2
  /\ \E j \in DOMAIN results : results[j].Probe.Health = HealthyStatus

\* The results of a run that differs only in the reasons the failing
\* checks give.
WithOtherReasons(rs) ==
  [j \in DOMAIN rs |->
     [rs[j] EXCEPT !.Err = IF @.isNil THEN @ ELSE Error("another reason")]]

\* C15 (as claimed): the response of /live, /ready and /startup is the same,
\* status and body, as that of the run that differs only in the reasons of
\* the failing checks.
C15_CategoryResponseHidesReasons ==
  (Responded /\ req.kind \in {LivenessProbeKind, ReadinessProbeKind, StartupProbeKind}) =>
    /\ status = EndpointStatus(WithOtherReasons(results))
    /\ body = EndpointBody(WithOtherReasons(results))

\* C16 (as claimed): the mux built from GetEndpointDefinitions has a
\* handler for each of /startup, /live, /ready and /health (and /metrics),
\* so that no request for one of them is answered 404.
C16_AllProbeEndpointsServed ==
  \A k \in DOMAIN EndpointDefinitions :
    (req.kind = k /\ status # 0) =>
      (EndpointDefinitions[k].Endpoint \in MuxPaths /\ status # StatusNotFound)

\* ------------------------------------------------------ claims, SpecStore
\* Caller c is inside a method of the store: it has the lock, or has passed
\* the place where the method takes it, and has not returned.
Inside(c) == callers[c].pc \in {"body", "unlock"}

Writing(c) == Inside(c) /\ callers[c].op \in {"Add", "Delete"}

\* C20, as claimed: a Get that has read the map returns the zero Probe when
\* the name is not registered, and never returns that value for a name that
\* is registered, so that the caller can tell the two apart.
C20_NotFoundIsDistinguishable ==
  \A c \in Callers :
    (callers[c].pc = "unlock" /\ callers[c].op = "Get") =>
      (callers[c].ret = {ZeroProbe} <=> callers[c].arg[1] \notin DOMAIN sprobes)

\* C21: when Delete has run, the map holds exactly the entries it held
\* before whose names are not among the arguments, each with the probe it
\* had; a name that was not registered changes nothing, and the call has
\* no result and ends no process.
C21_DeleteRemovesExactlyNamed ==
  \A c \in Callers :
    (callers[c].pc = "unlock" /\ callers[c].op = "Delete") =>
      LET before == callers[c].before
          names == Range(callers[c].arg)
      IN /\ DOMAIN sprobes = DOMAIN before \ names
         /\ \A n \in DOMAIN sprobes : sprobes[n] = before[n]
         /\ names \cap DOMAIN before = {} => sprobes = before
         /\ callers[c].ret = {}
         /\ ~crashed

\* C21 witness: Delete("a", "b") has run on a map that held b and c and not
\* a: b is gone, c is still there.
C21_Witness ==
  \E c \in Callers :
    /\ callers[c].pc = "unlock"
    /\ callers[c].op = "Delete"
    /\ callers[c].arg = <<"a", "b">>
    /\ DOMAIN callers[c].before = {"b", "c"}
    /\ DOMAIN sprobes = {"c"}

\* C11: while an Add or a Delete is inside the store no other call is, be
\* it a Get, a GetAll, a GetByKind, an Add or a Delete, and the mutex
\* counts exactly the callers inside.
C11_WritersExcludeAll ==
  /\ \A c \in DOMAIN callers : Writing(c) =>
       \A d \in DOMAIN callers \ {c} : ~Inside(d)
  /\ mu.writer <=> \E c \in DOMAIN callers : Writing(c)
  /\ mu.readers = Cardinality({c \in DOMAIN callers : Inside(c) /\ ~Writing(c)})

\* C11 witness: two reads are in progress at the same time, on a store that
\* an Add has filled.
C11_Witness ==
  /\ Cardinality({c \in DOMAIN callers : Inside(c) /\ ~Writing(c)}) >= 2
  /\ DOMAIN sprobes # {}

\* ------------------------------------------------- claims, SpecHandlerMap
\* C34, as claimed: while a RegisterProbes or an UnregisterProbes is in the
\* handler no other call is, be it a GetProbe, a GetProbesByKind or an
\* Execute, and no call ends the process.
C34_MapNeverReadWhileWritten ==
  /\ ~crashed
  /\ \A c \in DOMAIN callers :
       (Inside(c) /\ callers[c].op \in {"RegisterProbes", "UnregisterProbes"}) =>
         \A d \in DOMAIN callers \ {c} : ~Inside(d)

Series(r) == <<r.Probe.Kind, r.Probe.Name>>

\* C12: once UpdateGauge has returned, the series of every result of the
\* call holds the value of a result of the call for that series (0 for a
\* check that succeeded, 1 for one that failed; if two results of one call
\* name the same series, the value of one of them), and every series that
\* no result of the call names is as it was when UpdateGauge was called.
C12_GaugeHoldsOutcomesAfterUpdate ==
  (ug.pc = "idle" /\ ug.calls > 0) =>
    /\ \A j \in DOMAIN ug.rs :
         /\ Series(ug.rs[j]) \in DOMAIN gauge
         /\ \E k \in DOMAIN ug.rs :
              /\ Series(ug.rs[k]) = Series(ug.rs[j])
              /\ gauge[Series(ug.rs[j])] = IF ug.rs[k].Err.isNil THEN 0 ELSE 1
    /\ \A l \in (DOMAIN gauge \cup DOMAIN ug.before) \ {Series(ug.rs[j]) : j \in DOMAIN ug.rs} :
         l \in DOMAIN gauge /\ l \in DOMAIN ug.before /\ gauge[l] = ug.before[l]

\* C12 witness: a call for one succeeded check has returned and has turned
\* its series from 1 to 0 while another series, set by an earlier call,
\* still holds 1.
C12_Witness ==
  /\ ug.pc = "idle"
  /\ Len(ug.rs) = 1
  /\ ug.rs[1].Err.isNil
  /\ Series(ug.rs[1]) \in DOMAIN ug.before
  /\ ug.before[Series(ug.rs[1])] = 1
  /\ gauge[Series(ug.rs[1])] = 0
  /\ \E l \in DOMAIN ug.before : l # Series(ug.rs[1]) /\ gauge[l] = 1

\* No two results of rs name the same series with different outcomes (the
\* results of a round over registered probes name distinct series).
OneOutcomePerSeries(rs) ==
  \A j, k \in DOMAIN rs :
    Series(rs[j]) = Series(rs[k]) => rs[j].Err.isNil = rs[k].Err.isNil

\* C22: when UpdateGauge has returned from a call with the results of the
\* call before it, every gauge series is as the call before left it.
C22_UpdateGaugeIdempotent ==
  (ug.pc = "idle" /\ ug.repeat /\ OneOutcomePerSeries(ug.rs)) => gauge = ug.before

\* C22 witness: a second call with the same two results, one succeeded and
\* one failed, has returned, and the gauge holds 0 and 1 as after the first.
C22_Witness ==
  /\ ug.pc = "idle"
  /\ ug.repeat
  /\ Len(ug.rs) = 2
  /\ OneOutcomePerSeries(ug.rs)
  /\ gauge = ug.before
  /\ \E j, k \in DOMAIN ug.rs :
       gauge[Series(ug.rs[j])] = 0 /\ gauge[Series(ug.rs[k])] = 1

\* ------------------------------------------------------- claims, SpecSink
\* C23: a step that serves /metrics leaves the gauge, the pending gauge
\* writes and every probe goroutine as they are and calls no check; the
\* gauge changes only by a write that the UpdateGauge of a round left
\* behind, and such writes are left behind only when the round of a probe
\* endpoint returns.
C23_MetricsEndpointOnlyReads ==
  [][~crashed' =>
       /\ scrape' # scrape =>
            /\ gauge' = gauge /\ pending' = pending
            /\ invoked' = invoked /\ gpc' = gpc /\ rr' = rr /\ mainpc' = mainpc
       /\ gauge' # gauge =>
            /\ scrape' = scrape
            /\ \E w \in pending :
                 /\ w.round \in 1..rounds
                 /\ gauge' = GaugeSet(gauge, w.kind, w.name, w.val)
       /\ pending' \ pending # {} =>
            /\ mainpc = "returned" /\ req.via = "endpoint" /\ req.kind \in ServiceKinds
            /\ pending' = pending \cup UpdateGauge(rr, rounds)]_vars

\* C23 witness: /metrics has been served while gauge writes of a round were
\* still to come, and the gauge is what it was for the request.
C23_Witness ==
  /\ scrape.taken
  /\ pending # {}
  /\ DOMAIN gauge # {}
  /\ gauge = scrape.seen

\* ---------------------------------------------------- claims, SpecBuilder
\* A name, kind or check function of p is missing.
Missing(p) == TrimSpace(p.Name) = "" \/ TrimSpace(p.Kind) = "" \/ CheckFnOf(p) = ""

\* C24, as claimed: MustBuild panics exactly when the name, the kind or the
\* check function of the probe in the builder is missing, and Build returns
\* the probe without a panic whatever is missing.
C24_StrictBuildRejectsMissingFields ==
  /\ bld.op = "MustBuild" => (bld.panicked # "" <=> Missing(bld.arg))
  /\ bld.op = "Build" => (bld.panicked = "" /\ bld.out = Build(bld.arg, bld.ver))

\* C36: the probe Build returns has the default kind of its package, Health
\* in pkg/healthcheck and CustomProbeKind in pkg/factories, if the builder
\* held no kind (none was set, or the empty one), and otherwise the kind
\* the builder held, as it is.
C36_BuildDefaultsKind ==
  bld.op = "Build" =>
    /\ bld.arg.Kind = "" =>
         bld.out.Kind = IF bld.ver = "v1" THEN Health ELSE CustomProbeKind
    /\ bld.arg.Kind # "" => bld.out.Kind = bld.arg.Kind

\* C36 witness: Build on a builder of pkg/healthcheck that was given a name
\* and no kind has returned a Health probe.
C36_Witness ==
  /\ bld.op = "Build"
  /\ bld.ver = "v1"
  /\ bld.arg.Kind = ""
  /\ bld.arg.Name = "db"
  /\ bld.out.Kind = Health

C38_BuiltProbeStaysAsBuilt ==
  bld.held # <<>> => bld.held = bld.heldAs

\* C29, as claimed: when a second or later round has responded and no
\* gauge write is pending any more, the series of every probe of that round
\* holds the outcome of that round, whatever earlier rounds found.
C29_GaugeHoldsLatestRound ==
  (rounds >= 2 /\ Responded /\ pending = {}) =>
    \A j \in DOMAIN results :
      /\ Series(results[j]) \in DOMAIN gauge
      /\ gauge[Series(results[j])] = IF results[j].Err.isNil THEN 0 ELSE 1

\* C30, as claimed: a request to /metrics that came in after a round had
\* responded saw, for every result of that round, the outcome of that
\* round in the gauge.
C30_ScrapeAfterResponseSeesRound ==
  (scrape.taken /\ scrape.round >= 1) =>
    \A j \in DOMAIN scrape.results :
      /\ Series(scrape.results[j]) \in DOMAIN scrape.seen
      /\ scrape.seen[Series(scrape.results[j])]
           = IF scrape.results[j].Err.isNil THEN 0 ELSE 1

\* C31, as claimed: every round that has responded, whatever its status, is
\* followed by a state in which the process is running and every gauge
\* write of that round's results has been made.
C31_EveryRoundReachesTheSink ==
  \A r \in 1..MaxRounds :
    (Responded /\ req.via = "endpoint" /\ rounds = r)
      ~> (~crashed /\ rounds >= r /\ \A w \in pending : w.round # r)

====
